---- MODULE Spec2Model ----
(***************************************************************************)
(* A model of tx_boil_water_scraper.py: the text classifier, the place     *)
(* name derivation, the deduplicator of main() and the tiered geocoder     *)
(* with its persistent cache.                                              *)
(*                                                                         *)
(* Texts are TLA+ strings; Len, SubSeq and \o act on them character by     *)
(* character, so lowercasing, trimming and substring search are computed   *)
(* as Python computes them.  Coordinates are integers in units of 1e-4     *)
(* degree (31.0 is 310000).                                                *)
(***************************************************************************)
EXTENDS Integers, Sequences, FiniteSets, TLC

VARIABLES pc, arg, ret, all_notices, idx, cache, disk, reqs, raised, run, out, io

vars == <<pc, arg, ret, all_notices, idx, cache, disk, reqs, raised, run, out, io>>

(***************************************************************************)
(* Bounds of the model.                                                    *)
(***************************************************************************)
MaxFrags == 2
MaxDateFrags == 2
MaxDedup == 3
MaxGeoNotices == 2
MaxNameParts == 2
MaxRuns == 2

(***************************************************************************)
(* Strings.                                                                *)
(***************************************************************************)
UpperAlphabet == "ABCDEFGHIJKLMNOPQRSTUVWXYZ"
LowerAlphabet == "abcdefghijklmnopqrstuvwxyz"
Digits == "0123456789"
OtherChars == " -.,/&():;"

CharAt(s, i) == SubSeq(s, i, i)

CharsOf(s) == { CharAt(s, i) : i \in 1..Len(s) }

Chars == CharsOf(UpperAlphabet) \cup CharsOf(LowerAlphabet) \cup CharsOf(Digits)
           \cup CharsOf(OtherChars)

\* str.lower() on one character
LowerChar == [c \in Chars |->
                IF c \in CharsOf(UpperAlphabet)
                  THEN CharAt(LowerAlphabet,
                              CHOOSE i \in 1..26 : CharAt(UpperAlphabet, i) = c)
                  ELSE c]

\* str.upper() on one character
UpperChar == [c \in Chars |->
                IF c \in CharsOf(LowerAlphabet)
                  THEN CharAt(UpperAlphabet,
                              CHOOSE i \in 1..26 : CharAt(LowerAlphabet, i) = c)
                  ELSE c]

RECURSIVE MapChars(_, _)
MapChars(f, s) == IF s = "" THEN ""
                  ELSE f[CharAt(s, 1)] \o MapChars(f, SubSeq(s, 2, Len(s)))

\* str.lower()
Lower(s) == MapChars(LowerChar, s)

\* str.upper()
Upper(s) == MapChars(UpperChar, s)

IsSpace(c) == c = " "

IsDigit(c) == c \in CharsOf(Digits)

RECURSIVE LStrip(_)
LStrip(s) == IF s # "" /\ IsSpace(CharAt(s, 1)) THEN LStrip(SubSeq(s, 2, Len(s))) ELSE s

RECURSIVE RStrip(_)
RStrip(s) == IF s # "" /\ IsSpace(CharAt(s, Len(s)))
               THEN RStrip(SubSeq(s, 1, Len(s) - 1)) ELSE s

\* str.strip()
Strip(s) == RStrip(LStrip(s))

\* str.startswith(p), also "s matches the literal p at position 1"
StartsWith(s, p) == Len(p) <= Len(s) /\ SubSeq(s, 1, Len(p)) = p

\* s[i:] with i counted from 1
From(s, i) == SubSeq(s, i, Len(s))

\* Python's "p in s"
Contains(s, p) == \E i \in 1..(Len(s) - Len(p) + 1) : SubSeq(s, i, i + Len(p) - 1) = p

\* any(p in s for p in ps)
ContainsAny(s, ps) == \E p \in ps : Contains(s, p)

(***************************************************************************)
(* The text classifier.                                                    *)
(***************************************************************************)
BWN_ACTIVE_PHRASES ==
  { "boil water notice issued", "boil water notice is in effect",
    "boil water notice has been issued", "boil water advisory issued",
    "boil water advisory is in effect", "boil water advisory has been issued",
    "under a boil water", "subject to a boil water", "customers should boil",
    "advised to boil", "must boil water", "must boil all water",
    "boil your water", "boil all water", "do not use water",
    "do not consume water", "do not drink the water", "unsafe to drink",
    "until further notice", "precautionary boil", "due to a line break",
    "due to a water line", "due to loss of pressure", "low pressure" }

BWN_LIFTED_KEYWORDS ==
  { "rescind", "lifted", "no longer in effect", "has been cancelled",
    "has been canceled", "all clear", "safe to drink", "notice is over",
    "no active", "no current", "not currently under", "no boil water",
    "there are no" }

\* is_active_bwn_text with the lowercasing left out
is_active_bwn_text_nolower(text) ==
  ContainsAny(text, BWN_ACTIVE_PHRASES) /\ ~ContainsAny(text, BWN_LIFTED_KEYWORDS)

is_active_bwn_text(text) ==
  LET lower == Lower(text)
      has_bwn == ContainsAny(lower, BWN_ACTIVE_PHRASES)
      is_lifted == ContainsAny(lower, BWN_LIFTED_KEYWORDS)
  IN  has_bwn /\ ~is_lifted

\* the first index >= i of s whose character is not a space (Len(s)+1 if none):
\* where a greedy \s* that starts at i stops
RECURSIVE SkipSpaces(_, _)
SkipSpaces(s, i) == IF i <= Len(s) /\ IsSpace(CharAt(s, i)) THEN SkipSpaces(s, i + 1) ELSE i

\* where a greedy \d* that starts at i stops
RECURSIVE SkipDigits(_, _)
SkipDigits(s, i) == IF i <= Len(s) /\ IsDigit(CharAt(s, i)) THEN SkipDigits(s, i + 1) ELSE i

Min(a, b) == IF a < b THEN a ELSE b

\* s[:n]
Prefix(s, n) == SubSeq(s, 1, Min(n, Len(s)))

\* the index after the literal w (given in lowercase) matched at i, letter
\* case ignored, or 0
LitEnd(s, i, w) ==
  IF /\ i >= 1
     /\ i + Len(w) - 1 <= Len(s)
     /\ \A k \in 1..Len(w) : LowerChar[CharAt(s, i + k - 1)] = CharAt(w, k)
    THEN i + Len(w) ELSE 0

\* the index after one or more spaces matched at i (\s+), or 0
SpacesEnd(s, i) == IF i >= 1 /\ SkipSpaces(s, i) > i THEN SkipSpaces(s, i) ELSE 0

\* the index after lo to hi digits matched greedily at i (\d{lo,hi}), or 0
DigitsEnd(s, i, lo, hi) ==
  IF i < 1 THEN 0
  ELSE LET n == Min(SkipDigits(s, i) - i, hi) IN IF n >= lo THEN i + n ELSE 0

\* the index after an optional literal at i (w?), or 0 when i is 0
OptEnd(s, i, w) == IF i < 1 THEN 0 ELSE IF LitEnd(s, i, w) > 0 THEN LitEnd(s, i, w) ELSE i

\* re.search: the leftmost start with a match, and the text matched there
SearchFirst(s, MatchEnd(_, _)) ==
  LET starts == { i \in 1..Len(s) : MatchEnd(s, i) > 0 } IN
  IF starts = {} THEN ""
  ELSE LET i == CHOOSE a \in starts : \A b \in starts : a <= b
       IN  SubSeq(s, i, MatchEnd(s, i) - 1)

\* \d{1,2}/\d{1,2}/\d{2,4} at i
SlashDateEnd(s, i) ==
  DigitsEnd(s, LitEnd(s, DigitsEnd(s, LitEnd(s, DigitsEnd(s, i, 1, 2), "/"), 1, 2), "/"), 2, 4)

\* \d{1,2}-\d{1,2}-\d{2,4} at i
DashDateEnd(s, i) ==
  DigitsEnd(s, LitEnd(s, DigitsEnd(s, LitEnd(s, DigitsEnd(s, i, 1, 2), "-"), 1, 2), "-"), 2, 4)

MONTHS ==
  <<"january", "february", "march", "april", "may", "june", "july", "august",
    "september", "october", "november", "december">>

MONTH_ABBREVS ==
  <<"jan", "feb", "mar", "apr", "may", "jun", "jul", "aug", "sep", "oct", "nov", "dec">>

\* \s+\d{1,2},?\s+\d{4} at i
DayYearEnd(s, i) ==
  DigitsEnd(s, SpacesEnd(s, OptEnd(s, DigitsEnd(s, SpacesEnd(s, i), 1, 2), ",")), 4, 4)

\* the first alternative of names, in order, after which rest matches
AltEnd(s, i, names, Rest(_, _)) ==
  LET ok == { k \in 1..Len(names) :
                LitEnd(s, i, names[k]) > 0 /\ Rest(s, LitEnd(s, i, names[k])) > 0 } IN
  IF ok = {} THEN 0
  ELSE LET k == CHOOSE a \in ok : \A b \in ok : a <= b
       IN  Rest(s, LitEnd(s, i, names[k]))

\* (?:January|...|December)\s+\d{1,2},?\s+\d{4} at i
MonthDateEnd(s, i) == AltEnd(s, i, MONTHS, DayYearEnd)

\* \.?\s+\d{1,2},?\s+\d{4} at i
DotDayYearEnd(s, i) == DayYearEnd(s, OptEnd(s, i, "."))

\* (?:Jan|...|Dec)\.?\s+\d{1,2},?\s+\d{4} at i
AbbrevDateEnd(s, i) == AltEnd(s, i, MONTH_ABBREVS, DotDayYearEnd)

\* extract_date_from_text with the month-name patterns tried first
extract_date_months_first(text) ==
  IF SearchFirst(text, MonthDateEnd) # "" THEN Strip(SearchFirst(text, MonthDateEnd))
  ELSE IF SearchFirst(text, AbbrevDateEnd) # "" THEN Strip(SearchFirst(text, AbbrevDateEnd))
  ELSE IF SearchFirst(text, SlashDateEnd) # "" THEN Strip(SearchFirst(text, SlashDateEnd))
  ELSE Strip(SearchFirst(text, DashDateEnd))

extract_date_from_text(text) ==
  IF SearchFirst(text, SlashDateEnd) # "" THEN Strip(SearchFirst(text, SlashDateEnd))
  ELSE IF SearchFirst(text, DashDateEnd) # "" THEN Strip(SearchFirst(text, DashDateEnd))
  ELSE IF SearchFirst(text, MonthDateEnd) # "" THEN Strip(SearchFirst(text, MonthDateEnd))
  ELSE IF SearchFirst(text, AbbrevDateEnd) # "" THEN Strip(SearchFirst(text, AbbrevDateEnd))
  ELSE ""

(***************************************************************************)
(* The entity resolver.                                                    *)
(***************************************************************************)
\* the rules with the generic water district rule tried first
classify_entity_district_first(name) ==
  LET upper == Upper(name) IN
  IF Contains(upper, "WATER DISTRICT") THEN "Water District"
  ELSE IF ContainsAny(upper, {"MUD", "MUNICIPAL UTILITY", "M.U.D."})
    THEN "Municipal Utility District (MUD)"
  ELSE IF ContainsAny(upper, {"WSC", "WATER SUPPLY CORP"})
    THEN "Water Supply Corporation (WSC)"
  ELSE IF ContainsAny(upper, {"SUD", "SPECIAL UTILITY"})
    THEN "Special Utility District (SUD)"
  ELSE IF ContainsAny(upper, {"WCID", "WATER CONTROL"})
    THEN "Water Control & Improvement District (WCID)"
  ELSE IF ContainsAny(upper, {"FWSD", "FRESH WATER"})
    THEN "Fresh Water Supply District (FWSD)"
  ELSE IF ContainsAny(upper, {"PUD", "PUBLIC UTILITY"})
    THEN "Public Utility District (PUD)"
  ELSE IF ContainsAny(upper, {"CITY OF", "TOWN OF", "VILLAGE OF"})
    THEN "Municipality"
  ELSE IF Contains(upper, "COUNTY") THEN "County"
  ELSE IF Contains(upper, "RURAL WATER") THEN "Rural Water System"
  ELSE IF Contains(upper, "WATER AUTH") THEN "Water Authority"
  ELSE IF Contains(upper, "RIVER AUTH") THEN "River Authority"
  ELSE "Water System"

classify_entity(name) ==
  LET upper == Upper(name) IN
  IF ContainsAny(upper, {"MUD", "MUNICIPAL UTILITY", "M.U.D."})
    THEN "Municipal Utility District (MUD)"
  ELSE IF ContainsAny(upper, {"WSC", "WATER SUPPLY CORP"})
    THEN "Water Supply Corporation (WSC)"
  ELSE IF ContainsAny(upper, {"SUD", "SPECIAL UTILITY"})
    THEN "Special Utility District (SUD)"
  ELSE IF ContainsAny(upper, {"WCID", "WATER CONTROL"})
    THEN "Water Control & Improvement District (WCID)"
  ELSE IF ContainsAny(upper, {"FWSD", "FRESH WATER"})
    THEN "Fresh Water Supply District (FWSD)"
  ELSE IF ContainsAny(upper, {"PUD", "PUBLIC UTILITY"})
    THEN "Public Utility District (PUD)"
  ELSE IF ContainsAny(upper, {"CITY OF", "TOWN OF", "VILLAGE OF"})
    THEN "Municipality"
  ELSE IF Contains(upper, "COUNTY") THEN "County"
  ELSE IF Contains(upper, "RURAL WATER") THEN "Rural Water System"
  ELSE IF Contains(upper, "WATER DISTRICT") THEN "Water District"
  ELSE IF Contains(upper, "WATER AUTH") THEN "Water Authority"
  ELSE IF Contains(upper, "RIVER AUTH") THEN "River Authority"
  ELSE "Water System"

\* the prefix loop of _extract_place_name: each prefix is tried once, in order
PLACE_PREFIXES == <<"Consolidated WSC - ", "City of ", "Town of ", "Village of ">>

RECURSIVE StripPrefixes(_, _)
StripPrefixes(name, k) ==
  IF k > Len(PLACE_PREFIXES) THEN name
  ELSE IF StartsWith(name, PLACE_PREFIXES[k])
         THEN StripPrefixes(From(name, Len(PLACE_PREFIXES[k]) + 1), k + 1)
         ELSE StripPrefixes(name, k + 1)

\* the index after a match of
\*   Boil Water (?:Notice|Advisory)\s*\d*\s*[-]?\s*     (IGNORECASE)
\* that starts at position 1 of s, or 0 when there is none
NoticeNumberEnd(s) ==
  LET low == Lower(s)
      w == IF StartsWith(low, "boil water notice") THEN Len("boil water notice")
           ELSE IF StartsWith(low, "boil water advisory") THEN Len("boil water advisory")
           ELSE 0
      a == SkipSpaces(s, w + 1)
      b == SkipDigits(s, a)
      c == SkipSpaces(s, b)
      d == IF c <= Len(s) /\ CharAt(s, c) = "-" THEN c + 1 ELSE c
  IN  IF w = 0 THEN 0 ELSE SkipSpaces(s, d)

\* re.sub of that pattern by "": every non-overlapping match, left to right
RECURSIVE StripNoticeNumbers(_)
StripNoticeNumbers(s) ==
  IF s = "" THEN ""
  ELSE IF NoticeNumberEnd(s) > 0 THEN StripNoticeNumbers(From(s, NoticeNumberEnd(s)))
  ELSE CharAt(s, 1) \o StripNoticeNumbers(From(s, 2))

PLACE_SUFFIX_WORDS == {"area", "wsc", "mud", "sud", "wcid", "fwsd", "pud", "pua"}

PLACE_SUFFIX_HEADS == {"water supply", "municipal utility", "special utility"}

\* (?:Area|WSC|...|Water Supply.*|Municipal Utility.*|Special Utility.*)$
\* matched against the whole of rest (IGNORECASE)
IsPlaceSuffix(rest) ==
  LET low == Lower(rest) IN
  low \in PLACE_SUFFIX_WORDS \/ \E h \in PLACE_SUFFIX_HEADS : StartsWith(low, h)

\* \d+$ matched against the whole of rest
IsNumber(rest) == rest # "" /\ SkipDigits(rest, 1) = Len(rest) + 1

\* re.sub(r"\s+<tail>$", "", s): the leftmost position where one or more
\* spaces followed by a tail matching to the end of s starts; s is cut there
CutAt(s, TailMatches(_)) ==
  LET starts == { i \in 1..Len(s) :
                    IsSpace(CharAt(s, i)) /\ TailMatches(From(s, SkipSpaces(s, i))) }
  IN  IF starts = {} THEN s
      ELSE SubSeq(s, 1, (CHOOSE i \in starts : \A j \in starts : i <= j) - 1)

\* _extract_place_name with the number stripped before the suffix
extract_place_name_number_first(entity_name) ==
  Strip(CutAt(CutAt(StripNoticeNumbers(StripPrefixes(entity_name, 1)), IsNumber),
              IsPlaceSuffix))

_extract_place_name(entity_name) ==
  LET name1 == StripPrefixes(entity_name, 1)
      name2 == StripNoticeNumbers(name1)
      name3 == CutAt(name2, IsPlaceSuffix)
      name4 == CutAt(name3, IsNumber)
  IN  Strip(name4)

\* place_lower of geocode_notices
PlaceLower(entity_name) == Strip(Lower(_extract_place_name(entity_name)))

(***************************************************************************)
(* Notices.  A notice is a Python dict: a function from field names; the   *)
(* fields lat and lon are absent until the geocoder sets them.             *)
(***************************************************************************)
MkNotice(entity_name, entity_type, status, notice_text, date, source, source_url, entity_url) ==
  [entity_name |-> entity_name, entity_type |-> entity_type, status |-> status,
   notice_text |-> notice_text, date |-> date, source |-> source,
   source_url |-> source_url, entity_url |-> entity_url]

\* a copy of the notice with the eight common fields and the coordinates
SetCoordsOnCopy(notice, lat, lon) ==
  [k \in DOMAIN MkNotice("", "", "", "", "", "", "", "") \cup {"lat", "lon"} |->
     IF k = "lat" THEN lat ELSE IF k = "lon" THEN lon ELSE notice[k]]

\* notice["lat"] = lat; notice["lon"] = lon
SetCoords(notice, lat, lon) ==
  [k \in DOMAIN notice \cup {"lat", "lon"} |->
     IF k = "lat" THEN lat ELSE IF k = "lon" THEN lon ELSE notice[k]]

HasCoords(notice) == {"lat", "lon"} \subseteq DOMAIN notice

(***************************************************************************)
(* The deduplicator of main().                                             *)
(***************************************************************************)
\* the key of main's loop with the source left out
DedupKeyNameOnly(n) == <<Strip(Lower(n.entity_name)), "">>

\* the key of main's loop with the name as it is
DedupKeyRawName(n) == <<n.entity_name, n.source>>

DedupKey(n) == <<Strip(Lower(n.entity_name)), n.source>>

RECURSIVE DedupeLoop(_, _, _, _)
DedupeLoop(notices, i, seen, deduped) ==
  IF i > Len(notices) THEN deduped
  ELSE IF DedupKey(notices[i]) \notin seen
         THEN DedupeLoop(notices, i + 1, seen \cup {DedupKey(notices[i])},
                         Append(deduped, notices[i]))
         ELSE DedupeLoop(notices, i + 1, seen, deduped)

Dedupe(notices) == DedupeLoop(notices, 1, {}, <<>>)

(***************************************************************************)
(* The headline parser of the two search adapters.  Each pattern is        *)
(* matched as re.search matches it with re.IGNORECASE: leftmost start,     *)
(* optional parts taken before they are skipped, the lazy group as short   *)
(* as the rest of the pattern allows.                                      *)
(***************************************************************************)
\* the first element of texts that satisfies Ok, "" if none
FirstText(texts, Ok(_)) ==
  LET ok == { k \in 1..Len(texts) : Ok(texts[k]) } IN
  IF ok = {} THEN "" ELSE texts[CHOOSE a \in ok : \A b \in ok : a <= b]

IsLetter(c) == c \in CharsOf(UpperAlphabet) \cup CharsOf(LowerAlphabet)

\* where a greedy [a-zA-Z\s]* that starts at i stops
RECURSIVE SkipNameChars(_, _)
SkipNameChars(s, i) ==
  IF i <= Len(s) /\ (IsLetter(CharAt(s, i)) \/ IsSpace(CharAt(s, i)))
    THEN SkipNameChars(s, i + 1) ELSE i

\* LitEnd for the first word of ws that matches at i, or 0
AnyLitEnd(s, i, ws) ==
  LET ok == { k \in 1..Len(ws) : LitEnd(s, i, ws[k]) > 0 } IN
  IF ok = {} THEN 0
  ELSE LitEnd(s, i, ws[CHOOSE a \in ok : \A b \in ok : a <= b])

\* ([A-Z][a-zA-Z\s]+?) at j followed by After: the index after the group, or 0
LazyGroupEnd(s, j, After(_, _)) ==
  IF j < 1 \/ j > Len(s) \/ ~IsLetter(CharAt(s, j)) THEN 0
  ELSE LET ends == { k \in (j + 2)..SkipNameChars(s, j + 1) : After(s, k) }
       IN  IF ends = {} THEN 0 ELSE CHOOSE a \in ends : \A b \in ends : a <= b

\* the group of the first start in js, in order, at which the group matches
GroupAt(s, js, After(_, _)) ==
  LET ok == { n \in 1..Len(js) : LazyGroupEnd(s, js[n], After) > 0 } IN
  IF ok = {} THEN ""
  ELSE LET j == js[CHOOSE a \in ok : \A b \in ok : a <= b]
       IN  SubSeq(s, j, LazyGroupEnd(s, j, After) - 1)

\* the group of the leftmost match of a pattern, "" when there is no match
SearchGroup(s, At(_, _)) ==
  LET starts == { i \in 1..Len(s) : At(s, i) # "" } IN
  IF starts = {} THEN "" ELSE At(s, CHOOSE a \in starts : \A b \in starts : a <= b)

\* the start after an optional part: behind it first, then in front of it
WithOptional(j, afterOpt) ==
  IF j < 1 THEN <<>> ELSE IF afterOpt > 0 THEN <<afterOpt, j>> ELSE <<j>>

\* \s+(?:issues?|under|lifts?|rescinds?|residents?|customers?|has)
AfterCityVerb(s, k) ==
  AnyLitEnd(s, SpacesEnd(s, k),
            <<"issue", "under", "lift", "rescind", "resident", "customer", "has">>) > 0

\* (?:City of|Town of|Village of)\s+([A-Z][a-zA-Z\s]+?)(?:\s+(?:issues?|...))
CityOfAt(s, i) ==
  GroupAt(s, <<SpacesEnd(s, AnyLitEnd(s, i, <<"city of", "town of", "village of">>))>>,
          AfterCityVerb)

\* \s+(?:MUD|M\.U\.D\.)\s*\d*
AfterMud(s, k) == AnyLitEnd(s, SpacesEnd(s, k), <<"mud", "m.u.d.">>) > 0

MudAt(s, i) == GroupAt(s, <<i>>, AfterMud)

\* \s+(?:WSC|Water Supply)
AfterWsc(s, k) == AnyLitEnd(s, SpacesEnd(s, k), <<"wsc", "water supply">>) > 0

WscAt(s, i) == GroupAt(s, <<i>>, AfterWsc)

\* \s+(?:residents?|customers?|area)\s+(?:under|advised|told|issued)
AfterResidentsUnder(s, k) ==
  LET w == SpacesEnd(s, k)
      r == IF LitEnd(s, w, "resident") > 0 THEN OptEnd(s, LitEnd(s, w, "resident"), "s")
           ELSE IF LitEnd(s, w, "customer") > 0
                  THEN OptEnd(s, LitEnd(s, w, "customer"), "s")
                  ELSE LitEnd(s, w, "area")
  IN  AnyLitEnd(s, SpacesEnd(s, r), <<"under", "advised", "told", "issued">>) > 0

ResidentsUnderAt(s, i) == GroupAt(s, <<i>>, AfterResidentsUnder)

\* the index after an optional "issued\s+" at i
IssuedEnd(s, i) ==
  IF SpacesEnd(s, LitEnd(s, i, "issued")) > 0 THEN SpacesEnd(s, LitEnd(s, i, "issued")) ELSE i

\* parts?\s+of\s+ at i
PartsOfEnd(s, i) ==
  SpacesEnd(s, LitEnd(s, SpacesEnd(s, OptEnd(s, LitEnd(s, i, "part"), "s")), "of"))

\* some\s+ at i
SomeEnd(s, i) == SpacesEnd(s, LitEnd(s, i, "some"))

\* (?:some\s+|parts?\s+of\s+) at i
SomeOrPartsOfEnd(s, i) == IF SomeEnd(s, i) > 0 THEN SomeEnd(s, i) ELSE PartsOfEnd(s, i)

\* [,;.] at i
PunctuationAt(s, i) == i <= Len(s) /\ CharAt(s, i) \in {",", ";", "."}

\* (?:\s*[,;.]|\s+(?:after|due|following|residents?))
AfterPlaceOfNotice(s, k) ==
  \/ PunctuationAt(s, SkipSpaces(s, k))
  \/ AnyLitEnd(s, SpacesEnd(s, k), <<"after", "due", "following", "resident">>) > 0

\* boil water (?:notice|advisory)\s+(?:issued\s+)?(?:for|in)\s+
\*   (?:some\s+|parts?\s+of\s+)?([A-Z][a-zA-Z\s]+?)(?:\s*[,;.]|\s+(?:after|...))
NoticeForAt(s, i) ==
  LET a == SpacesEnd(s, AnyLitEnd(s, LitEnd(s, i, "boil water "), <<"notice", "advisory">>))
      j == IF a < 1 THEN 0 ELSE SpacesEnd(s, AnyLitEnd(s, IssuedEnd(s, a), <<"for", "in">>))
  IN  GroupAt(s, WithOptional(j, SomeOrPartsOfEnd(s, j)), AfterPlaceOfNotice)

\* \s+residents?
AfterResidents(s, k) == LitEnd(s, SpacesEnd(s, k), "resident") > 0

\* (?:notice|advisory)\s+(?:issued\s+)?for\s+(?:some\s+)?([A-Z][a-zA-Z\s]+?)\s+residents?
ForSomeResidentsAt(s, i) ==
  LET a == SpacesEnd(s, AnyLitEnd(s, i, <<"notice", "advisory">>))
      j == IF a < 1 THEN 0 ELSE SpacesEnd(s, LitEnd(s, IssuedEnd(s, a), "for"))
  IN  GroupAt(s, WithOptional(j, SomeEnd(s, j)), AfterResidents)

\* \s+(?:after|due|following|,|$)
AfterIssuedIn(s, k) ==
  /\ SpacesEnd(s, k) > 0
  /\ \/ AnyLitEnd(s, SpacesEnd(s, k), <<"after", "due", "following", ",">>) > 0
     \/ SpacesEnd(s, k) = Len(s) + 1

\* (?:notice|advisory)\s+issued\s+(?:in|for)\s+(?:parts?\s+of\s+)?
\*   ([A-Z][a-zA-Z\s]+?)(?:\s+(?:after|due|following|,|$))
IssuedInAt(s, i) ==
  LET a == SpacesEnd(s, LitEnd(s, SpacesEnd(s, AnyLitEnd(s, i, <<"notice", "advisory">>)),
                               "issued"))
      j == SpacesEnd(s, AnyLitEnd(s, a, <<"in", "for">>))
  IN  GroupAt(s, WithOptional(j, PartsOfEnd(s, j)), AfterIssuedIn)

\* (?:\s*$|\s*[,;.])
AfterCustomersIn(s, k) ==
  \/ SkipSpaces(s, k) = Len(s) + 1
  \/ PunctuationAt(s, SkipSpaces(s, k))

\* for\s+(?:customers|residents|people)\s+in\s+([A-Z][a-zA-Z\s]+?)(?:\s*$|\s*[,;.])
CustomersInAt(s, i) ==
  LET a == SpacesEnd(s, AnyLitEnd(s, SpacesEnd(s, LitEnd(s, i, "for")),
                                  <<"customers", "residents", "people">>))
  IN  GroupAt(s, <<SpacesEnd(s, LitEnd(s, a, "in"))>>, AfterCustomersIn)

HEADLINE_STOPWORDS ==
  {"texas", "the", "all", "some", "many", "parts", "several", "multiple",
   "in", "for", "after", "due", "following", "certain", "select"}

\* re.sub(r"^(?:some|parts?\s+of)\s+", "", name).strip() of the stripped group
HeadlineName(group) ==
  LET name == Strip(group)
      some == SpacesEnd(name, LitEnd(name, 1, "some"))
      parts == PartsOfEnd(name, 1)
  IN  IF some > 0 THEN Strip(From(name, some))
      ELSE IF parts > 0 THEN Strip(From(name, parts))
      ELSE name

\* whether the loop returns the name found by a pattern
HeadlineNameOk(name) == Len(name) > 2 /\ Lower(name) \notin HEADLINE_STOPWORDS

\* the names the eight patterns give, in the order of the list
HeadlineCandidates(h) ==
  <<HeadlineName(SearchGroup(h, CityOfAt)), HeadlineName(SearchGroup(h, MudAt)),
    HeadlineName(SearchGroup(h, WscAt)), HeadlineName(SearchGroup(h, ResidentsUnderAt)),
    HeadlineName(SearchGroup(h, NoticeForAt)), HeadlineName(SearchGroup(h, ForSomeResidentsAt)),
    HeadlineName(SearchGroup(h, IssuedInAt)), HeadlineName(SearchGroup(h, CustomersInAt))>>

_extract_entity_from_headline(headline) ==
  FirstText(HeadlineCandidates(headline), HeadlineNameOk)

(***************************************************************************)
(* The adapters.  A fetch is what session.get and raise_for_status give:   *)
(* a RequestException, or the page as the parser hands it to the loop.     *)
(***************************************************************************)
FetchFailed == [ok |-> FALSE]

Fetched(page) == [ok |-> TRUE, page |-> page]

RECURSIVE Flatten(_)
Flatten(seqs) == IF seqs = <<>> THEN <<>> ELSE Head(seqs) \o Flatten(Tail(seqs))

\* sep.join(parts)
RECURSIVE Join(_, _)
Join(parts, sep) ==
  IF parts = <<>> THEN ""
  ELSE IF Len(parts) = 1 THEN parts[1]
  ELSE parts[1] \o sep \o Join(Tail(parts), sep)

MUNICIPALOPS_URL == "https://municipalops.com/status/"

\* urljoin(url, href) for a path from the root and for a relative path
UrlJoin(url, href) ==
  IF StartsWith(href, "/") THEN "https://municipalops.com" \o href ELSE url \o href

\* an <li> is its text and the text and href of its first link, if any
MuniEntityName(li) == IF li.a = <<>> THEN "" ELSE li.a[1].text

MuniEntityUrl(li) ==
  LET href == IF li.a = <<>> THEN "" ELSE li.a[1].href IN
  IF href # "" /\ ~StartsWith(href, "http") THEN UrlJoin(MUNICIPALOPS_URL, href) ELSE href

MuniNotice(li, status) ==
  MkNotice(MuniEntityName(li), classify_entity(MuniEntityName(li)), status, li.text,
           extract_date_from_text(li.text), "MunicipalOps", MUNICIPALOPS_URL,
           MuniEntityUrl(li))

\* the body of the loop over the <li> of a list: the notices it appends
MuniItem(li) ==
  IF is_active_bwn_text(li.text) THEN <<MuniNotice(li, "Active")>>
  ELSE IF Contains(Lower(li.text), "rescind") \/ Contains(Lower(li.text), "lifted")
         THEN <<>>
  ELSE IF Contains(Lower(li.text), "boil water notice") /\ Contains(Lower(li.text), "as of")
         THEN <<MuniNotice(li, "Possibly Active")>>
  ELSE <<>>

\* a section is an <h3>/<h4> heading and the <li> of the lists that follow it
MuniSection(sec) ==
  IF ~Contains(Lower(sec.heading), "boil water") THEN <<>>
  ELSE Flatten([k \in 1..Len(sec.lis) |-> MuniItem(sec.lis[k])])

scrape_municipalops(fetch) ==
  IF ~fetch.ok THEN <<>>
  ELSE Flatten([k \in 1..Len(fetch.page) |-> MuniSection(fetch.page[k])])

SWWC_URL == "https://www.swwc.com/texas/neighborhood-dashboard/"

\* the last column whose header satisfies Is, counted from 1; 0 is None
LastColumn(headers, Is(_)) ==
  LET ok == { k \in 1..Len(headers) : Is(Lower(headers[k])) } IN
  IF ok = {} THEN 0 ELSE CHOOSE a \in ok : \A b \in ok : b <= a

IsStatusHeader(h) == Contains(h, "state") \/ Contains(h, "status")

IsNameHeader(h) == Contains(h, "water system")

IsCountyHeader(h) == Contains(h, "county")

IsNeighborhoodHeader(h) == Contains(h, "neighborhood") \/ Contains(h, "detailed")

\* cells[idx] if idx is not None and len(cells) > idx else ""
CellOrEmpty(cells, col) == IF col # 0 /\ Len(cells) >= col THEN cells[col] ELSE ""

SwwcNotice(entity_name, county, neighborhood, status_text) ==
  [entity_name |-> entity_name, entity_type |-> classify_entity(entity_name),
   status |-> status_text,
   notice_text |-> county \o " - " \o neighborhood \o " - " \o status_text,
   date |-> "", source |-> "SWWC Dashboard", source_url |-> SWWC_URL, entity_url |-> "",
   county |-> county, neighborhood |-> neighborhood]

\* the body of the loop over the rows of a table
SwwcRow(cells, status_idx, name_idx, county_idx, neighborhood_idx) ==
  IF Len(cells) < status_idx THEN <<>>
  ELSE IF Lower(cells[status_idx]) # "good" /\ cells[status_idx] # ""
    THEN LET system_name == CellOrEmpty(cells, name_idx)
             neighborhood == CellOrEmpty(cells, neighborhood_idx)
         IN  <<SwwcNotice(IF system_name # "" THEN system_name ELSE neighborhood,
                          CellOrEmpty(cells, county_idx), neighborhood,
                          cells[status_idx])>>
    ELSE <<>>

\* a table is the texts of its <th> and the cells of its rows after the first
SwwcTable(table) ==
  LET status_idx == LastColumn(table.headers, IsStatusHeader) IN
  IF table.headers = <<>> \/ status_idx = 0 THEN <<>>
  ELSE Flatten([k \in 1..Len(table.rows) |->
                  SwwcRow(table.rows[k], status_idx,
                          LastColumn(table.headers, IsNameHeader),
                          LastColumn(table.headers, IsCountyHeader),
                          LastColumn(table.headers, IsNeighborhoodHeader))])

scrape_swwc_dashboard(fetch) ==
  IF ~fetch.ok THEN <<>>
  ELSE Flatten([k \in 1..Len(fetch.page) |-> SwwcTable(fetch.page[k])])

CONSOLIDATED_URL == "https://consolidatedwsc.com/alerts"

\* the hyphens of text that the two area patterns can match at: one with a
\* character after it, and for the first pattern digits and spaces before it
AreaDashes(text, afterDigits) ==
  { d \in 1..(Len(text) - 1) :
      /\ CharAt(text, d) = "-"
      /\ afterDigits =>
           \E i \in 1..(d - 1) : /\ IsDigit(CharAt(text, i))
                                 /\ \A j \in (i + 1)..(d - 1) : IsSpace(CharAt(text, j)) }

\* \s*(.+?)(?:\s+Area)?$ after the hyphen at d: the group, stripped
AreaGroup(text, d) ==
  LET g == Min(SkipSpaces(text, d + 1), Len(text))
      n == Len(text)
  IN  IF /\ n - 4 >= g + 1
         /\ SubSeq(text, n - 3, n) = "Area"
         /\ IsSpace(CharAt(text, n - 4))
        THEN Strip(SubSeq(text, g, n - 5))
        ELSE Strip(SubSeq(text, g, n))

\* area_match.group(1).strip() if area_match else text
AreaName(text) ==
  LET first == AreaDashes(text, TRUE)
      second == AreaDashes(text, FALSE)
  IN  IF first # {} THEN AreaGroup(text, CHOOSE a \in first : \A b \in first : a <= b)
      ELSE IF second # {} THEN AreaGroup(text, CHOOSE a \in second : \A b \in second : a <= b)
      ELSE text

CONSOLIDATED_GENERIC == {"boil water advisories", "boil water notices", "boil water"}

NonEmpty(texts) == SelectSeq(texts, LAMBDA t : t # "")

\* a heading is its text and the texts of the siblings up to the next heading
ConsolidatedHeading(h) ==
  LET detail == Join(NonEmpty(h.siblings), " ") IN
  IF ~Contains(Lower(h.text), "boil water") THEN <<>>
  ELSE IF Strip(Lower(h.text)) \in CONSOLIDATED_GENERIC THEN <<>>
  ELSE IF Contains(Lower(h.text), "rescind") THEN <<>>
  ELSE IF ContainsAny(Lower(h.text \o " " \o detail), BWN_LIFTED_KEYWORDS) THEN <<>>
  ELSE <<MkNotice("Consolidated WSC - " \o AreaName(h.text),
                  "Water Supply Corporation (WSC)", "Active",
                  h.text \o ". " \o Prefix(detail, 300),
                  IF extract_date_from_text(detail) # ""
                    THEN extract_date_from_text(detail)
                    ELSE extract_date_from_text(h.text),
                  "Consolidated WSC", CONSOLIDATED_URL, CONSOLIDATED_URL)>>

scrape_consolidated_wsc(fetch) ==
  IF ~fetch.ok THEN <<>>
  ELSE Flatten([k \in 1..Len(fetch.page) |-> ConsolidatedHeading(fetch.page[k])])

\* the entries of the list that the model follows
CITY_UTILITY_PAGES ==
  << <<"City of Houston", "https://www.publicworks.houstontx.gov/wss-boil-water-notice">>,
     <<"Crystal Clear SUD", "https://crystalclearsud.org/alerts">> >>

IsLongActiveText(t) == is_active_bwn_text(t) /\ Len(t) > 20

CITY_DEFAULT_TEXT == "Active boil water notice detected on page (see source URL)"

\* a page is its whole text, the texts of the alert elements in the order of
\* the three selectors and the texts of its <p>, <li> and <div> elements
CityNoticeText(page) ==
  IF FirstText(page.alerts, is_active_bwn_text) # ""
    THEN Prefix(FirstText(page.alerts, is_active_bwn_text), 500)
  ELSE IF FirstText(page.blocks, IsLongActiveText) # ""
    THEN Prefix(FirstText(page.blocks, IsLongActiveText), 500)
  ELSE CITY_DEFAULT_TEXT

scrape_city_page(fetch, entity_name, url) ==
  IF ~fetch.ok THEN <<>>
  ELSE IF ~is_active_bwn_text(fetch.page.page_text) THEN <<>>
  ELSE <<MkNotice(entity_name, classify_entity(entity_name), "Active",
                  CityNoticeText(fetch.page),
                  extract_date_from_text(CityNoticeText(fetch.page)),
                  "City/Utility Website", url, url)>>

\* fetches[k] is the fetch of the k-th page of the list
scrape_all_city_pages(fetches) ==
  Flatten([k \in 1..Len(CITY_UTILITY_PAGES) |->
             scrape_city_page(fetches[k], CITY_UTILITY_PAGES[k][1],
                              CITY_UTILITY_PAGES[k][2])])

\* entity_name or fallback
NameOr(entity_name, fallback) == IF entity_name # "" THEN entity_name ELSE fallback

\* classify_entity(entity_name) if entity_name else "Unknown"
TypeOrUnknown(entity_name) ==
  IF entity_name # "" THEN classify_entity(entity_name) ELSE "Unknown"

BingNotice(title, entity_name, date, href) ==
  MkNotice(NameOr(entity_name, "Unknown (see headline)"), TypeOrUnknown(entity_name),
           "Reported Active (News)", title, date, "Bing News", href, "")

\* a card is its title link, if any, and its source or date element, if any;
\* st is the notices and the seen titles so far
BingCard(card, st) ==
  IF card.link = <<>> THEN st
  ELSE LET title == card.link[1].text IN
    IF title = "" \/ title \in st.seen THEN st
    ELSE IF ~ContainsAny(Lower(title), {"boil water", "water advisory", "do not use"})
      THEN [st EXCEPT !.seen = @ \cup {title}]
    ELSE IF ContainsAny(Lower(title), BWN_LIFTED_KEYWORDS)
      THEN [st EXCEPT !.seen = @ \cup {title}]
    ELSE [notices |-> Append(st.notices,
                             BingNotice(title, _extract_entity_from_headline(title),
                                        IF card.source = <<>> THEN "" ELSE card.source[1],
                                        card.link[1].href)),
          seen |-> st.seen \cup {title}]

RECURSIVE BingCards(_, _)
BingCards(cards, st) ==
  IF cards = <<>> THEN st ELSE BingCards(Tail(cards), BingCard(Head(cards), st))

\* a link is its text, its href and the text of its parent
BingLink(a, st) ==
  IF a.text = "" \/ a.text \in st.seen \/ Len(a.text) < 20 THEN st
  ELSE IF ~ContainsAny(Lower(a.text), {"boil water notice", "boil water advisory"}) THEN st
  ELSE IF ContainsAny(Lower(a.text), BWN_LIFTED_KEYWORDS) THEN st
  ELSE IF /\ ~ContainsAny(Lower(a.text), {"texas", "tx"})
          /\ ~ContainsAny(Lower(a.parent_text), {"texas", "tx"}) THEN st
  ELSE [notices |-> Append(st.notices,
                           BingNotice(a.text, _extract_entity_from_headline(a.text), "",
                                      a.href)),
        seen |-> st.seen \cup {a.text}]

RECURSIVE BingLinks(_, _)
BingLinks(links, st) ==
  IF links = <<>> THEN st ELSE BingLinks(Tail(links), BingLink(Head(links), st))

\* the body of the loop over the queries
BingQuery(fetch, st) ==
  IF ~fetch.ok THEN st ELSE BingLinks(fetch.page.links, BingCards(fetch.page.cards, st))

\* the loop over the queries; fetches[k] is the fetch of the k-th query
RECURSIVE BingQueries(_, _)
BingQueries(fetches, st) ==
  IF fetches = <<>> THEN st ELSE BingQueries(Tail(fetches), BingQuery(Head(fetches), st))

\* unique = {}; the first notice of each lowercased name, in order
RECURSIVE UniqueByName(_, _, _)
UniqueByName(notices, seen, unique) ==
  IF notices = <<>> THEN unique
  ELSE IF Lower(Head(notices).entity_name) \in seen
         THEN UniqueByName(Tail(notices), seen, unique)
         ELSE UniqueByName(Tail(notices), seen \cup {Lower(Head(notices).entity_name)},
                           Append(unique, Head(notices)))

scrape_bing_news(fetches) ==
  UniqueByName(BingQueries(fetches, [notices |-> <<>>, seen |-> {}]).notices, {}, <<>>)

DuckNotice(title, entity_name, href, snippet) ==
  MkNotice(NameOr(entity_name, Prefix(title, 60)), TypeOrUnknown(entity_name),
           "Reported Active (Web)", title \o ". " \o Prefix(snippet, 200),
           extract_date_from_text(snippet), "DuckDuckGo", href, href)

\* a result is the text and href of its title link, if any, and its snippet
DuckResult(r, st) ==
  IF r.link = <<>> THEN st
  ELSE LET title == r.link[1].text
           href == r.link[1].href
           combined == Lower(title \o " " \o r.snippet)
       IN
    IF ~ContainsAny(combined, {"boil water", "water advisory"}) THEN st
    ELSE IF ContainsAny(combined, BWN_LIFTED_KEYWORDS) THEN st
    ELSE IF href \in st.seen THEN st
    ELSE [notices |->
            Append(st.notices,
                   DuckNotice(title, _extract_entity_from_headline(title), href, r.snippet)),
          seen |-> st.seen \cup {href}]

RECURSIVE DuckResults(_, _)
DuckResults(results, st) ==
  IF results = <<>> THEN st ELSE DuckResults(Tail(results), DuckResult(Head(results), st))

\* the body of the loop over the queries
DuckQuery(fetch, st) == IF ~fetch.ok THEN st ELSE DuckResults(fetch.page, st)

\* the loop over the queries; fetches[k] is the fetch of the k-th query
RECURSIVE DuckQueries(_, _)
DuckQueries(fetches, st) ==
  IF fetches = <<>> THEN st ELSE DuckQueries(Tail(fetches), DuckQuery(Head(fetches), st))

scrape_duckduckgo(fetches) == DuckQueries(fetches, [notices |-> <<>>, seen |-> {}]).notices

(***************************************************************************)
(* The output files of main().                                             *)
(***************************************************************************)
CSV_FIELDS ==
  <<"entity_name", "entity_type", "status", "date", "notice_text", "source",
    "source_url", "entity_url">>

\* a file that was not written
NotWritten == [written |-> FALSE]

NoOutput == [csv |-> NotWritten, json |-> NotWritten, latest |-> NotWritten]

\* DictWriter.writerow with extrasaction="ignore": the cells of a notice
CsvRow(notice) == [k \in 1..Len(CSV_FIELDS) |-> notice[CSV_FIELDS[k]]]

\* write_csv(notices, filepath): the file after the call
write_csv(notices, file) ==
  IF notices = <<>> THEN file
  ELSE [written |-> TRUE, header |-> CSV_FIELDS,
        rows |-> [k \in 1..Len(notices) |-> CsvRow(notices[k])]]

\* run_metadata without its clock reading
RunMetadata(notices) == [total_notices |-> Len(notices), notices |-> notices]

\* write_json(run_metadata, filepath): the file after the call
write_json(data) == [written |-> TRUE, data |-> data]

WriteOutcomes == {"ok", "fails"}

(***************************************************************************)
(* The geocoder.                                                           *)
(***************************************************************************)
\* entries of TX_PLACES (a part of the table)
TX_PLACES ==
  [p \in {"houston", "austin", "oak grove", "lakeway", "tyler"} |->
     CASE p = "houston"   -> <<297604, -953698>>
       [] p = "austin"    -> <<302672, -977431>>
       [] p = "oak grove" -> <<314000, -955000>>
       [] p = "lakeway"   -> <<303632, -979795>>
       [] p = "tyler"     -> <<323513, -953011>>]

FALLBACK_LAT == 310000
FALLBACK_LON == -990000

TX_LAT_MIN == 255000
TX_LAT_MAX == 365000
TX_LON_MIN == -1067000
TX_LON_MAX == -935000

\* the sanity check with the latitude's upper bound left out
InTexasBoundsNoNorth(lat, lon) == TX_LAT_MIN < lat /\ TX_LON_MIN < lon /\ lon < TX_LON_MAX

\* 25.5 < lat < 36.5 and -106.7 < lon < -93.5
InTexasBounds(lat, lon) ==
  TX_LAT_MIN < lat /\ lat < TX_LAT_MAX /\ TX_LON_MIN < lon /\ lon < TX_LON_MAX

\* The cache is a Python dict: its items in insertion order, keys unique.
DictHas(d, k) == \E i \in 1..Len(d) : d[i].key = k

DictGet(d, k) == d[CHOOSE i \in 1..Len(d) : d[i].key = k].val

DictKeys(d) == { d[i].key : i \in 1..Len(d) }

\* d[k] = v
DictSet(d, k, v) ==
  IF DictHas(d, k)
    THEN [i \in 1..Len(d) |-> IF d[i].key = k THEN [key |-> k, val |-> v] ELSE d[i]]
    ELSE Append(d, [key |-> k, val |-> v])

\* a dump that leaves out the dict's oldest item
json_dump_without_oldest(d) == [i \in 1..(Len(d) - 1) |-> <<d[i + 1].key, d[i + 1].val[1], d[i + 1].val[2]>>]

\* json.dump(cache, f): the members of one JSON object, in the dict's order
json_dump(d) == [i \in 1..Len(d) |-> <<d[i].key, d[i].val[1], d[i].val[2]>>]

\* json.load(f): the dict of the object's members, a later member replacing
\* an earlier one of the same name
RECURSIVE json_load_from(_, _, _)
json_load_from(members, i, d) ==
  IF i > Len(members) THEN d
  ELSE json_load_from(members, i + 1,
                      DictSet(d, members[i][1], <<members[i][2], members[i][3]>>))

json_load(members) == json_load_from(members, 1, <<>>)

\* The cache file: missing, unreadable as JSON, or a JSON object.
MissingFile == [state |-> "missing", members |-> <<>>]

CorruptFile == [state |-> "corrupt", members |-> <<>>]

JsonFile(members) == [state |-> "json", members |-> members]

_load_geocache(file) == IF file.state = "json" THEN json_load(file.members) ELSE <<>>

\* What the Nominatim request can produce: a failed request, or a JSON body
\* that is a list of objects whose lat and lon are strings holding a number,
\* other strings, null or absent.
NumStr(x) == [t |-> "numstr", v |-> x]

BadStr == [t |-> "badstr", v |-> 0]

Null == [t |-> "null", v |-> 0]

RequestFailed == [ok |-> FALSE, body |-> <<>>]

Body(b) == [ok |-> TRUE, body |-> b]

\* float(v)
FloatOf(v) == IF v.t = "numstr" THEN [exc |-> "none", value |-> v.v]
              ELSE IF v.t = "badstr" THEN [exc |-> "ValueError", value |-> 0]
              ELSE [exc |-> "TypeError", value |-> 0]

NOMINATIM_CAUGHT == {"RequestException", "KeyError", "IndexError", "ValueError"}

None == <<>>

Returns(v) == [exc |-> "none", value |-> v]

Raises(e) == [exc |-> e, value |-> None]

\* the body of the try block: what it returns or raises
NominatimTry(resp) ==
  IF ~resp.ok THEN Raises("RequestException")
  ELSE IF resp.body = <<>> THEN Returns(None)
  ELSE LET r == resp.body[1] IN
       IF "lat" \notin DOMAIN r THEN Raises("KeyError")
       ELSE IF FloatOf(r.lat).exc # "none" THEN Raises(FloatOf(r.lat).exc)
       ELSE IF "lon" \notin DOMAIN r THEN Raises("KeyError")
       ELSE IF FloatOf(r.lon).exc # "none" THEN Raises(FloatOf(r.lon).exc)
       ELSE Returns(<<FloatOf(r.lat).value, FloatOf(r.lon).value>>)

geocode_nominatim(resp) ==
  LET t == NominatimTry(resp) IN
  IF t.exc \in NOMINATIM_CAUGHT THEN Returns(None) ELSE t

\* the tier order with the cache asked before the gazetteer
GeoTierCacheFirst(place_lower, c) ==
  IF DictHas(c, place_lower) THEN "cache"
  ELSE IF place_lower \in DOMAIN TX_PLACES THEN "gazetteer"
  ELSE "nominatim"

\* the tier order with the cache tier left out
GeoTierNoCache(place_lower, c) ==
  IF place_lower \in DOMAIN TX_PLACES THEN "gazetteer" ELSE "nominatim"

\* which branch of the loop body of geocode_notices resolves place_lower
GeoTier(place_lower, c) ==
  IF place_lower \in DOMAIN TX_PLACES THEN "gazetteer"
  ELSE IF DictHas(c, place_lower) THEN "cache"
  ELSE "nominatim"

\* the cache write of the Nominatim branch, keyed by the place as extracted
CacheStoreRawKey(c, place, coords) == DictSet(c, place, coords)

\* cache[place_lower] = [lat, lon]
CacheStore(c, place, coords) == DictSet(c, Strip(Lower(place)), coords)

\* The Nominatim answers the model draws from.
COORD_IN_TX == <<295000, -955000>>
COORD_NORTH == <<400000, -990000>>
COORD_EDGE == <<255000, -990000>>

ResultObj(c) == [lat |-> NumStr(c[1]), lon |-> NumStr(c[2])]

Responses ==
  { RequestFailed, Body(<<>>),
    Body(<<ResultObj(COORD_IN_TX)>>), Body(<<ResultObj(COORD_NORTH)>>),
    Body(<<ResultObj(COORD_EDGE)>>),
    Body(<<[lon |-> NumStr(-955000)]>>),
    Body(<<[lat |-> BadStr, lon |-> NumStr(-955000)]>>),
    Body(<<[lat |-> Null, lon |-> Null]>>) }

SaveOutcomes == {"ok", "open_fails", "write_fails"}

\* io is the run's log of what geocode_notices does outside the process: the
\* load of the cache file, its save (save_failed when open or json.dump
\* raised), the requests, and the sleeps with their length in milliseconds.
Event(ev) == [ev |-> ev, ms |-> 0]

Sleep(ms) == [ev |-> "sleep", ms |-> ms]

\* a sleep only after a lookup that returned coordinates
NominatimPauseOnSuccess(coords) == IF coords # None THEN <<Sleep(1100)>> ELSE <<>>

\* time.sleep(1.1), the last statement of the loop body whatever coords is
NominatimPause(coords) == <<Sleep(1100)>>

\* geocode_notices: cache = _load_geocache()
GeoLoad ==
  /\ pc = "geo_load"
  /\ cache' = _load_geocache(disk)
  /\ idx' = 1
  /\ reqs' = <<>>
  /\ io' = Append(io, Event("load"))
  /\ pc' = "geo_loop"
  /\ UNCHANGED <<arg, ret, all_notices, disk, raised, run, out>>

\* one pass of the loop body, tier 1
GeoGazetteer ==
  /\ pc = "geo_loop"
  /\ idx <= Len(all_notices)
  /\ LET place_lower == PlaceLower(all_notices[idx].entity_name) IN
       /\ GeoTier(place_lower, cache) = "gazetteer"
       /\ all_notices' = [all_notices EXCEPT ![idx] =
                            SetCoords(@, TX_PLACES[place_lower][1], TX_PLACES[place_lower][2])]
  /\ idx' = idx + 1
  /\ UNCHANGED <<pc, arg, ret, cache, disk, reqs, raised, run, out, io>>

\* one pass of the loop body, tier 2
GeoCache ==
  /\ pc = "geo_loop"
  /\ idx <= Len(all_notices)
  /\ LET place_lower == PlaceLower(all_notices[idx].entity_name) IN
       /\ GeoTier(place_lower, cache) = "cache"
       /\ all_notices' = [all_notices EXCEPT ![idx] =
                            SetCoords(@, DictGet(cache, place_lower)[1],
                                         DictGet(cache, place_lower)[2])]
  /\ idx' = idx + 1
  /\ UNCHANGED <<pc, arg, ret, cache, disk, reqs, raised, run, out, io>>

\* one pass of the loop body, tier 3, the service answering resp
GeoNominatim(resp) ==
  /\ pc = "geo_loop"
  /\ idx <= Len(all_notices)
  /\ LET place == _extract_place_name(all_notices[idx].entity_name)
         place_lower == Strip(Lower(place))
         coords == geocode_nominatim(resp)
     IN
       /\ GeoTier(place_lower, cache) = "nominatim"
       /\ reqs' = Append(reqs, [i |-> idx, q |-> place, resp |-> resp])
       /\ IF coords.exc # "none"
            THEN /\ raised' = coords.exc
                 /\ pc' = "crashed"
                 /\ io' = Append(io, Event("get"))
                 /\ UNCHANGED <<all_notices, cache, idx>>
          ELSE IF coords.value # None
                  /\ InTexasBounds(coords.value[1], coords.value[2])
            THEN /\ all_notices' = [all_notices EXCEPT ![idx] =
                                      SetCoords(@, coords.value[1], coords.value[2])]
                 /\ cache' = CacheStore(cache, place, coords.value)
                 /\ idx' = idx + 1
                 /\ io' = Append(io, Event("get")) \o NominatimPause(coords.value)
                 /\ UNCHANGED <<pc, raised>>
          ELSE   /\ all_notices' = [all_notices EXCEPT ![idx] =
                                      SetCoords(@, FALLBACK_LAT, FALLBACK_LON)]
                 /\ idx' = idx + 1
                 /\ io' = Append(io, Event("get")) \o NominatimPause(coords.value)
                 /\ UNCHANGED <<pc, raised, cache>>
  /\ UNCHANGED <<arg, ret, disk, run, out>>

\* _save_geocache(cache) after the loop, and the return
GeoSave(outcome) ==
  /\ pc = "geo_loop"
  /\ idx > Len(all_notices)
  /\ CASE outcome = "ok" ->
            /\ disk' = JsonFile(json_dump(cache))
            /\ pc' = "geo_return"
            /\ UNCHANGED raised
       [] outcome = "open_fails" ->
            /\ raised' = "OSError"
            /\ pc' = "crashed"
            /\ UNCHANGED disk
       [] outcome = "write_fails" ->
            /\ disk' = CorruptFile
            /\ raised' = "OSError"
            /\ pc' = "crashed"
  /\ io' = Append(io, Event(IF outcome = "ok" THEN "save" ELSE "save_failed"))
  /\ UNCHANGED <<arg, ret, all_notices, idx, cache, reqs, run, out>>

(***************************************************************************)
(* SpecGeo: geocode_notices called, run after run, on deduplicated lists   *)
(* of notices, against the cache file the runs before have left.           *)
(***************************************************************************)
RECURSIVE SeqsUpTo(_, _)
SeqsUpTo(S, n) ==
  IF n = 0 THEN {<<>>}
  ELSE SeqsUpTo(S, n - 1)
         \cup { Append(q, x) : q \in { r \in SeqsUpTo(S, n - 1) : Len(r) = n - 1 }, x \in S }

GeoNotice(entity_name, source) ==
  MkNotice(entity_name, classify_entity(entity_name), "Active", "Advised to boil water.",
           "", source, "https://example.org/status/", "")

GeoPool ==
  { GeoNotice("City of Houston", "City/Utility Website"),
    GeoNotice("Crystal Clear SUD", "City/Utility Website"),
    GeoNotice("CRYSTAL CLEAR  sud", "MunicipalOps"),
    GeoNotice("Fort Bend County MUD 35", "MunicipalOps") }

GeoInputs == { l \in SeqsUpTo(GeoPool, MaxGeoNotices) : Dedupe(l) = l }

\* Cache files left by earlier runs: none; one place; one place and a key
\* that the gazetteer now holds as well.
COORD_CACHED == <<301000, -979000>>
COORD_STALE == <<290000, -950000>>

InitFiles ==
  { MissingFile,
    JsonFile(<<<<"crystal clear", COORD_CACHED[1], COORD_CACHED[2]>>>>),
    JsonFile(<<<<"houston", COORD_STALE[1], COORD_STALE[2]>>,
               <<"crystal clear", COORD_CACHED[1], COORD_CACHED[2]>>>>) }

InitGeo ==
  /\ pc = "idle"
  /\ arg = ""
  /\ ret = ""
  /\ all_notices = <<>>
  /\ idx = 1
  /\ cache = <<>>
  /\ disk \in InitFiles
  /\ reqs = <<>>
  /\ raised = "none"
  /\ run = 0
  /\ out = NoOutput
  /\ io = <<>>

\* the next run, a new process that keeps nothing of the one before but the
\* cache file, calls geocode_notices(session, notices)
GeoCall(notices) ==
  /\ pc \in {"idle", "geo_return", "crashed"}
  /\ run < MaxRuns
  /\ run' = run + 1
  /\ all_notices' = notices
  /\ idx' = 1
  /\ cache' = <<>>
  /\ reqs' = <<>>
  /\ raised' = "none"
  /\ io' = <<>>
  /\ pc' = "geo_load"
  /\ UNCHANGED <<arg, ret, disk, out>>

NextGeo ==
  \/ \E notices \in GeoInputs : GeoCall(notices)
  \/ GeoLoad
  \/ GeoGazetteer
  \/ GeoCache
  \/ \E resp \in Responses : GeoNominatim(resp)
  \/ \E outcome \in SaveOutcomes : GeoSave(outcome)

SpecGeo == InitGeo /\ [][NextGeo]_vars

(***************************************************************************)
(* main(): the six adapters in the order of the calls, the deduplicator,   *)
(* the geocoder and the three output files.                                *)
(***************************************************************************)
MuniLi(text, name, href) == [text |-> text, a |-> <<[text |-> name, href |-> href]>>]

MuniFetches ==
  { FetchFailed,
    Fetched(<< [heading |-> "Office Closures",
                lis |-> <<MuniLi("City of Austin: customers must boil water", "City of Austin",
                                 "/austin")>>],
               [heading |-> "Boil Water Notices",
                lis |-> <<MuniLi("City of Houston: Boil water notice issued 05-02-26",
                                 "City of Houston", "https://houstontx.gov/"),
                          MuniLi("Lakeway MUD: Boil water notice rescinded as of 05-03-26",
                                 "Lakeway MUD", "lakeway"),
                          MuniLi("Lakeway MUD: Boil water notice no longer in effect as of 05-03-26",
                                 "Lakeway MUD", "lakeway")>>] >>),
    Fetched(<< [heading |-> "Boil Water Notices",
                lis |-> <<MuniLi("Crystal Clear SUD: Boil water notice as of 05-02-26",
                                 "Crystal Clear SUD", "/crystal-clear"),
                          [text |-> "Boil water notice as of May 3, 2026", a |-> <<>>]>>] >>) }

SwwcFetches ==
  { FetchFailed,
    Fetched(<< [headers |-> <<>>, rows |-> << <<"Harris", "Boil Water Notice">> >>],
               [headers |-> <<"County", "Water System Name", "Detailed Neighborhood",
                              "State of the Neighborhood">>,
                rows |-> << <<"Travis", "Lakeway", "Oak Hills", "Good">>,
                            <<"Harris", "Houston", "Pine Trails", "Boil Water Notice">>,
                            <<"Smith", "Tyler", "Lake Park", "Boil Water Notice Lifted">>,
                            <<"Smith", "Tyler">> >>],
               [headers |-> <<"County", "Water System", "Neighborhood", "Status">>,
                rows |-> << <<"Travis", "", "Oak Grove", "Outage">> >>] >>) }

ConsolidatedFetches ==
  { FetchFailed,
    Fetched(<< [text |-> "Boil Water Notices", siblings |-> <<>>],
               [text |-> "Office Hours", siblings |-> <<"Open 8 to 5">>],
               [text |-> "Boil Water Notice 1130033 - Oak Grove Area",
                siblings |-> <<"Issued 05/02/2026 for customers on CR 12.", "">>],
               [text |-> "Boil Water Notice 1130034 - Lakeway Area",
                siblings |-> <<"This notice was lifted on 05/03/2026.">>],
               [text |-> "Rescinded: Boil Water Notice 1130030 - Tyler",
                siblings |-> <<>>] >>) }

CityPage(page_text, alerts, blocks) ==
  [page_text |-> page_text, alerts |-> alerts, blocks |-> blocks]

\* the fetches of the pages of the list, page by page
CityFetches ==
  << { FetchFailed,
       Fetched(CityPage("Alerts A boil water notice is in effect for Kingwood. Contact us",
                        <<"Alerts", "A boil water notice is in effect for Kingwood.">>,
                        <<"Contact us">>)) },
     { Fetched(CityPage("There are no boil water notices. Customers should boil water when advised.",
                        <<>>, <<"There are no boil water notices.">>)),
       Fetched(CityPage("News Customers on FM 150 must boil water as of May 3, 2026",
                        <<"News">>,
                        <<"Customers on FM 150 must boil water as of May 3, 2026">>)) } >>

BingPage(cards, links) == [cards |-> cards, links |-> links]

BingCardOf(title, href, source) ==
  [link |-> <<[text |-> title, href |-> href]>>, source |-> source]

BingLinkOf(title, href, parent_text) ==
  [text |-> title, href |-> href, parent_text |-> parent_text]

\* the fetches of the two queries
BingFetches ==
  { <<FetchFailed, FetchFailed>>,
    <<Fetched(BingPage(
        << [link |-> <<>>, source |-> <<>>],
           BingCardOf("City of Houston issues boil water notice", "https://news.example/1",
                      <<"2h">>),
           BingCardOf("Boil water notice lifted for Tyler residents", "https://news.example/2",
                      <<>>),
           BingCardOf("City council meets", "https://news.example/3", <<>>) >>,
        << BingLinkOf("City of Houston issues boil water notice", "https://news.example/1", ""),
           BingLinkOf("City of HOUSTON under boil water notice", "https://news.example/4",
                      "Texas news") >>)),
      Fetched(BingPage(
        << BingCardOf("City of Houston issues boil water notice", "https://news.example/1",
                      <<>>),
           BingCardOf("Texas town under boil water advisory", "https://news.example/5", <<>>) >>,
        << BingLinkOf("Boil water notice in Ohio town", "https://news.example/6", "Ohio"),
           BingLinkOf("Boil water notice rescinded in Austin, TX", "https://news.example/7",
                      "") >>))>> }

DuckResultOf(title, href, snippet) ==
  [link |-> <<[text |-> title, href |-> href]>>, snippet |-> snippet]

\* the fetches of the two queries
DuckFetches ==
  { <<FetchFailed, FetchFailed>>,
    <<Fetched(<< [link |-> <<>>, snippet |-> "boil water"],
                 DuckResultOf("Boil water notice issued for customers in Lakeway",
                              "https://web.example/1", "Issued May 3, 2026."),
                 DuckResultOf("Water news", "https://web.example/2",
                              "The boil water notice has been cancelled."),
                 DuckResultOf("Texas weather", "https://web.example/3", "Rain"),
                 DuckResultOf("Lakeway under boil water advisory", "https://web.example/1",
                              ""),
                 DuckResultOf("Boil water advisory", "https://web.example/4", "") >>),
      FetchFailed>> }

\* scrape_bing_news and scrape_duckduckgo on the fetches above, computed once
BingNewsOf == [fetches \in BingFetches |-> scrape_bing_news(fetches)]

DuckDuckGoOf == [fetches \in DuckFetches |-> scrape_duckduckgo(fetches)]

\* the answers of the geocoding service that the runs of main() are given
MainResponses ==
  { RequestFailed, Body(<<ResultObj(COORD_IN_TX)>>), Body(<<[lat |-> Null, lon |-> Null]>>) }

Init ==
  /\ pc = "municipalops"
  /\ arg = ""
  /\ ret = ""
  /\ all_notices = <<>>
  /\ idx = 1
  /\ cache = <<>>
  /\ disk \in InitFiles
  /\ reqs = <<>>
  /\ raised = "none"
  /\ run = 1
  /\ out = NoOutput
  /\ io = <<>>

\* what the log holds of the adapter's requests: which of them failed
FetchLog(source, fetches) ==
  [k \in 1..Len(fetches) |->
     [ev |-> IF fetches[k].ok THEN "fetched" ELSE "fetch_failed", ms |-> 0, source |-> source]]

\* the call with an assignment in the place of extend
ExtendReplacing(found, next, source, fetches) ==
  /\ all_notices' = found
  /\ pc' = next
  /\ io' = io \o FetchLog(source, fetches)
  /\ UNCHANGED <<arg, ret, idx, cache, disk, reqs, raised, run, out>>

\* all_notices.extend(found) and on to the next call
Extend(found, next, source, fetches) ==
  /\ all_notices' = all_notices \o found
  /\ pc' = next
  /\ io' = io \o FetchLog(source, fetches)
  /\ UNCHANGED <<arg, ret, idx, cache, disk, reqs, raised, run, out>>

ScrapeMunicipalOps(fetch) ==
  /\ pc = "municipalops"
  /\ Extend(scrape_municipalops(fetch), "swwc", "MunicipalOps", <<fetch>>)

ScrapeSwwcDashboard(fetch) ==
  /\ pc = "swwc"
  /\ Extend(scrape_swwc_dashboard(fetch), "consolidated", "SWWC Dashboard", <<fetch>>)

ScrapeConsolidatedWsc(fetch) ==
  /\ pc = "consolidated"
  /\ Extend(scrape_consolidated_wsc(fetch), "city", "Consolidated WSC", <<fetch>>)

ScrapeAllCityPages(fetches) ==
  /\ pc = "city"
  /\ Extend(scrape_all_city_pages(fetches), "bing", "City/Utility Website", fetches)

ScrapeBingNews(fetches) ==
  /\ pc = "bing"
  /\ Extend(BingNewsOf[fetches], "duckduckgo", "Bing News", fetches)

ScrapeDuckDuckGo(fetches) ==
  /\ pc = "duckduckgo"
  /\ Extend(DuckDuckGoOf[fetches], "dedupe", "DuckDuckGo", fetches)

\* the deduplication loop, and the call of geocode_notices
Deduplicate ==
  /\ pc = "dedupe"
  /\ all_notices' = Dedupe(all_notices)
  /\ pc' = "geo_load"
  /\ UNCHANGED <<arg, ret, idx, cache, disk, reqs, raised, run, out, io>>

\* write_csv(all_notices, csv_path)
WriteCsv(outcome) ==
  /\ pc = "geo_return"
  /\ IF outcome = "ok" \/ all_notices = <<>>
       THEN /\ out' = [out EXCEPT !.csv = write_csv(all_notices, @)]
            /\ pc' = "write_json"
            /\ UNCHANGED raised
       ELSE /\ raised' = "OSError"
            /\ pc' = "crashed"
            /\ UNCHANGED out
  /\ UNCHANGED <<arg, ret, all_notices, idx, cache, disk, reqs, run, io>>

\* write_json(run_metadata, json_path)
WriteJson(outcome) ==
  /\ pc = "write_json"
  /\ IF outcome = "ok"
       THEN /\ out' = [out EXCEPT !.json = write_json(RunMetadata(all_notices))]
            /\ pc' = "write_latest"
            /\ UNCHANGED raised
       ELSE /\ raised' = "OSError"
            /\ pc' = "crashed"
            /\ UNCHANGED out
  /\ UNCHANGED <<arg, ret, all_notices, idx, cache, disk, reqs, run, io>>

\* write_json(run_metadata, latest_path), and the return of main()
WriteLatest(outcome) ==
  /\ pc = "write_latest"
  /\ IF outcome = "ok"
       THEN /\ out' = [out EXCEPT !.latest = write_json(RunMetadata(all_notices))]
            /\ pc' = "done"
            /\ UNCHANGED raised
       ELSE /\ raised' = "OSError"
            /\ pc' = "crashed"
            /\ UNCHANGED out
  /\ UNCHANGED <<arg, ret, all_notices, idx, cache, disk, reqs, run, io>>

Next ==
  \/ \E fetch \in MuniFetches : ScrapeMunicipalOps(fetch)
  \/ \E fetch \in SwwcFetches : ScrapeSwwcDashboard(fetch)
  \/ \E fetch \in ConsolidatedFetches : ScrapeConsolidatedWsc(fetch)
  \/ \E f1 \in CityFetches[1], f2 \in CityFetches[2] : ScrapeAllCityPages(<<f1, f2>>)
  \/ \E fetches \in BingFetches : ScrapeBingNews(fetches)
  \/ \E fetches \in DuckFetches : ScrapeDuckDuckGo(fetches)
  \/ Deduplicate
  \/ GeoLoad
  \/ GeoGazetteer
  \/ GeoCache
  \/ \E resp \in MainResponses : GeoNominatim(resp)
  \/ \E outcome \in SaveOutcomes : GeoSave(outcome)
  \/ \E outcome \in WriteOutcomes : WriteCsv(outcome)
  \/ \E outcome \in WriteOutcomes : WriteJson(outcome)
  \/ \E outcome \in WriteOutcomes : WriteLatest(outcome)

Spec == Init /\ [][Next]_vars

(***************************************************************************)
(* Vocabulary of the geocoder's properties.  reqs is the run's log of      *)
(* Nominatim requests: the notice asked for, the query and the answer.     *)
(***************************************************************************)
\* notices 1..idx-1 have been through the loop body
Resolved(i) == i \in 1..Len(all_notices) /\ i < idx

CoordsOf(i) == <<all_notices[i].lat, all_notices[i].lon>>

FallbackCentroid == <<FALLBACK_LAT, FALLBACK_LON>>

\* the answer holds a number for lat and for lon
HasCoordinate(resp) ==
  /\ resp.ok
  /\ resp.body # <<>>
  /\ {"lat", "lon"} \subseteq DOMAIN resp.body[1]
  /\ resp.body[1].lat.t = "numstr"
  /\ resp.body[1].lon.t = "numstr"

CoordinateOf(resp) == <<resp.body[1].lat.v, resp.body[1].lon.v>>

\* the Texas bounding box [25.5, 36.5] x [-106.7, -93.5]
InBox(c) == 255000 <= c[1] /\ c[1] <= 365000 /\ -1067000 <= c[2] /\ c[2] <= -935000

\* strictly inside the box
InsideBox(c) == 255000 < c[1] /\ c[1] < 365000 /\ -1067000 < c[2] /\ c[2] < -935000

\* a successful, in-bounds answer
Usable(resp) == HasCoordinate(resp) /\ InsideBox(CoordinateOf(resp))

NormalizedPlace(q) == Strip(Lower(q))

Requested(i) == \E k \in 1..Len(reqs) : reqs[k].i = i

\* C5: whenever the external geocoding call has failed, returned no result
\* or returned an unusable result for a notice, that notice has the fallback
\* centroid (31.0, -99.0); and when the geocoding step has returned, every
\* notice has both lat and lon.
C5_FallbackOnEveryFailedLookup ==
  /\ \A k \in 1..Len(reqs) :
       ~Usable(reqs[k].resp)
         => /\ HasCoords(all_notices[reqs[k].i])
            /\ CoordsOf(reqs[k].i) = FallbackCentroid
  /\ pc = "geo_return" => \A i \in 1..Len(all_notices) : HasCoords(all_notices[i])

C7_OutOfBoundsStep ==
  \A resp \in Responses :
    (GeoNominatim(resp) /\ HasCoordinate(resp) /\ ~InBox(CoordinateOf(resp)))
      => /\ cache' = cache
         /\ disk' = disk
         /\ HasCoords(all_notices'[idx])
         /\ <<all_notices'[idx].lat, all_notices'[idx].lon>> = FallbackCentroid

C7_OutOfBoundsNotPersisted ==
  pc = "geo_return" =>
    \A k \in 1..Len(reqs) :
      (HasCoordinate(reqs[k].resp) /\ ~InBox(CoordinateOf(reqs[k].resp)))
        => /\ CoordsOf(reqs[k].i) = FallbackCentroid
           /\ \/ NormalizedPlace(reqs[k].q) \notin DictKeys(_load_geocache(disk))
              \/ \E m \in (k + 1)..Len(reqs) :
                   /\ NormalizedPlace(reqs[m].q) = NormalizedPlace(reqs[k].q)
                   /\ Usable(reqs[m].resp)

C7_OutOfBoundsDiscarded == [][C7_OutOfBoundsStep]_vars /\ []C7_OutOfBoundsNotPersisted

\* the service answered (40.0, -99.0) and the run has persisted its cache
C7_Witness ==
  /\ pc = "geo_return"
  /\ \E k \in 1..Len(reqs) :
       /\ HasCoordinate(reqs[k].resp)
       /\ CoordinateOf(reqs[k].resp) = COORD_NORTH
       /\ CoordsOf(reqs[k].i) = FallbackCentroid
       /\ NormalizedPlace(reqs[k].q) \notin DictKeys(_load_geocache(disk))

\* C8: the loop body, on a notice whose normalized place name is a key of
\* TX_PLACES, gives the notice the gazetteer's coordinates, sends no request
\* and leaves the cache as it is, whatever the cache holds for that key.
C8_GazetteerStep ==
  (/\ pc = "geo_loop"
   /\ idx <= Len(all_notices)
   /\ PlaceLower(all_notices[idx].entity_name) \in DOMAIN TX_PLACES)
    => /\ idx' = idx + 1
       /\ HasCoords(all_notices'[idx])
       /\ <<all_notices'[idx].lat, all_notices'[idx].lon>>
            = TX_PLACES[PlaceLower(all_notices[idx].entity_name)]
       /\ reqs' = reqs
       /\ cache' = cache
       /\ disk' = disk

C8_GazetteerFirst == [][C8_GazetteerStep]_vars

\* a gazetteer place has been resolved while the cache held another
\* coordinate under its key
C8_Witness ==
  \E i \in 1..Len(all_notices) :
    /\ Resolved(i)
    /\ PlaceLower(all_notices[i].entity_name) \in DOMAIN TX_PLACES
    /\ DictHas(cache, PlaceLower(all_notices[i].entity_name))
    /\ DictGet(cache, PlaceLower(all_notices[i].entity_name))
         # TX_PLACES[PlaceLower(all_notices[i].entity_name)]
    /\ CoordsOf(i) = TX_PLACES[PlaceLower(all_notices[i].entity_name)]

\* C9: while a run resolves its notices, every notice resolved so far whose
\* place is no gazetteer key and is held by the cache as loaded has the
\* cached coordinates and caused no request: so do two consecutive
\* resolutions of the place, in the first run or in a later one.
C9_CachedPlaceIdempotent ==
  pc = "geo_loop" =>
    \A i \in 1..Len(all_notices) :
      (/\ Resolved(i)
       /\ PlaceLower(all_notices[i].entity_name) \notin DOMAIN TX_PLACES
       /\ DictHas(_load_geocache(disk), PlaceLower(all_notices[i].entity_name)))
        => /\ CoordsOf(i)
                = DictGet(_load_geocache(disk), PlaceLower(all_notices[i].entity_name))
           /\ ~Requested(i)

\* the second run has resolved the same cached place twice, without a request
C9_Witness ==
  /\ pc = "geo_loop"
  /\ run = 2
  /\ reqs = <<>>
  /\ \E i, j \in 1..Len(all_notices) :
       /\ i < j
       /\ Resolved(j)
       /\ PlaceLower(all_notices[i].entity_name) = PlaceLower(all_notices[j].entity_name)
       /\ PlaceLower(all_notices[i].entity_name) \notin DOMAIN TX_PLACES
       /\ DictHas(_load_geocache(disk), PlaceLower(all_notices[i].entity_name))
       /\ CoordsOf(i) = CoordsOf(j)

DictExtends(d2, d1) ==
  \A k \in DictKeys(d1) : DictHas(d2, k) /\ DictGet(d2, k) = DictGet(d1, k)

\* C11: the cache in memory holds every entry of the cache as loaded while
\* the run resolves its notices; a step of the loop keeps every entry the
\* cache holds, under its key and with its value; and the file that the run
\* persists holds every entry of the file the run loaded.
C11_LoadedEntriesKept == pc = "geo_loop" => DictExtends(cache, _load_geocache(disk))

C11_LoopStep == (pc = "geo_loop" /\ pc' = "geo_loop") => DictExtends(cache', cache)

C11_SaveStep ==
  (pc = "geo_loop" /\ pc' = "geo_return")
    => /\ DictExtends(_load_geocache(disk'), _load_geocache(disk))
       /\ DictExtends(_load_geocache(disk'), cache)

Count(ev) == Cardinality({ k \in 1..Len(io) : io[k].ev = ev })

\* the geocoding step of the run is over: it has returned or raised
GeocodingOver == pc \in {"geo_return", "write_json", "write_latest", "done", "crashed"}

\* C12: when the geocoding step of a run is over, the run has loaded the
\* cache once, before any request and any write, and has gone to write it to the cache
\* file once (a write that the file system refuses counts), after the last
\* request, whatever the number of notices and of new entries.
C12_CacheLoadedAndSavedOnce ==
  GeocodingOver =>
    /\ Count("load") = 1
    /\ \E l \in 1..Len(io) :
         /\ io[l].ev = "load"
         /\ \A k \in 1..Len(io) : io[k].ev \in {"get", "sleep", "save", "save_failed"} => l < k
    /\ Count("save") + Count("save_failed") = 1
    /\ \E s \in 1..Len(io) :
         /\ io[s].ev \in {"save", "save_failed"}
         /\ \A k \in 1..Len(io) : io[k].ev = "get" => k < s

\* the minimum interval between two requests to Nominatim, in milliseconds
MIN_INTERVAL_MS == 1000

\* the place in the log of the k-th request of the run
GetAt(k) == CHOOSE p \in 1..Len(io) :
              /\ io[p].ev = "get"
              /\ Cardinality({ q \in 1..p : io[q].ev = "get" }) = k

\* the request got no coordinate inside the box: it failed or timed out, the
\* result list was empty or unreadable, or the result was out of bounds
Unanswered(resp) == geocode_nominatim(resp).exc = "none" /\ ~Usable(resp)

\* C13: between any two requests of a run the process has slept at least the
\* minimum interval; and a request that failed, timed out or gave an
\* unusable or out-of-bounds result is followed by such a sleep before the
\* run does anything else.
C13_WaitBetweenRequests ==
  /\ \A a, b \in 1..Len(io) :
       (a < b /\ io[a].ev = "get" /\ io[b].ev = "get")
         => \E k \in (a + 1)..(b - 1) : io[k].ev = "sleep" /\ io[k].ms >= MIN_INTERVAL_MS
  /\ \A k \in 1..Len(reqs) :
       Unanswered(reqs[k].resp)
         => /\ GetAt(k) < Len(io)
            /\ io[GetAt(k) + 1].ev = "sleep"
            /\ io[GetAt(k) + 1].ms >= MIN_INTERVAL_MS

\* a request that failed and one answered out of bounds, each followed by
\* the sleep, the second request after the first one's sleep
C13_Witness ==
  /\ Len(reqs) = 2
  /\ ~reqs[1].resp.ok
  /\ HasCoordinate(reqs[2].resp)
  /\ ~InBox(CoordinateOf(reqs[2].resp))
  /\ Count("get") = 2
  /\ Count("sleep") = 2

\* the notices of an output file, none while it is not written
NoticesIn(file) == IF file.written THEN file.data.notices ELSE <<>>

\* the adapters in the order main() calls them: the stage, the source its
\* notices carry, and the stage that follows
AdapterStages ==
  << [stage |-> "municipalops", source |-> "MunicipalOps",         then |-> "swwc"],
     [stage |-> "swwc",         source |-> "SWWC Dashboard",       then |-> "consolidated"],
     [stage |-> "consolidated", source |-> "Consolidated WSC",     then |-> "city"],
     [stage |-> "city",         source |-> "City/Utility Website", then |-> "bing"],
     [stage |-> "bing",         source |-> "Bing News",            then |-> "duckduckgo"],
     [stage |-> "duckduckgo",   source |-> "DuckDuckGo",           then |-> "dedupe"] >>

\* the requests of the source that the log holds
FetchesOf(log, source) ==
  { k \in 1..Len(log) : log[k].ev \in {"fetched", "fetch_failed"} /\ log[k].source = source }

\* the adapter of the source has run and every request of it failed
SourceFailed(log, source) ==
  /\ FetchesOf(log, source) # {}
  /\ \A k \in FetchesOf(log, source) : log[k].ev = "fetch_failed"

NoticesOf(notices, source) == SelectSeq(notices, LAMBDA n : n.source = source)

\* C14: a source all of whose requests failed has no notice in the
\* collection; the step of an adapter that failed leaves the notices of the
\* adapters before it as they are, raises nothing and hands over to the
\* next adapter in the order of main().
C14_FailedSourceEmpty ==
  \A a \in 1..Len(AdapterStages) :
    SourceFailed(io, AdapterStages[a].source) => NoticesOf(all_notices, AdapterStages[a].source) = <<>>

C14_AdapterStep ==
  \A a \in 1..Len(AdapterStages) :
    pc = AdapterStages[a].stage
      => /\ pc' = AdapterStages[a].then
         /\ raised' = "none"
         /\ \A b \in 1..Len(AdapterStages) :
              b # a => NoticesOf(all_notices', AdapterStages[b].source)
                         = NoticesOf(all_notices, AdapterStages[b].source)
         /\ SourceFailed(io', AdapterStages[a].source) => all_notices' = all_notices

OutputRefused == pc = "crashed" /\ raised = "OSError" /\ Count("save") = 1

\* C15: no run stops before its output, unless the file system refuses an
\* output file itself; and a run that has ended has written the snapshot
\* and the latest file, both holding the run's notice collection, empty or
\* not.
C15_BothArtifactsWritten ==
  /\ pc = "crashed" => OutputRefused
  /\ pc = "done"
       => /\ out.json.written
          /\ out.latest.written
          /\ out.json.data = RunMetadata(all_notices)
          /\ out.latest.data = RunMetadata(all_notices)

\* C16: a run that has ended after _save_geocache failed has reported the
\* OSError and has written the snapshot and the latest file with the
\* geocoded notices.
C16_SaveFailureStillEmits ==
  (pc \in {"done", "crashed"} /\ Count("save_failed") = 1)
    => /\ raised = "OSError"
       /\ out.json.written
       /\ out.latest.written
       /\ NoticesIn(out.json) = all_notices
       /\ NoticesIn(out.latest) = all_notices
       /\ \A i \in 1..Len(all_notices) : HasCoords(all_notices[i])

\* C17: every notice that a run has written to the snapshot or to the
\* latest file has a non-empty entity_name, whichever adapter produced it.
C17_EntityNameNonEmpty ==
  \A file \in {out.json, out.latest} :
    \A k \in 1..Len(NoticesIn(file)) : NoticesIn(file)[k].entity_name # ""

(***************************************************************************)
(* SpecFun: the pure functions, each applied to inputs drawn from bounded  *)
(* sets.  arg is the call (the function and its input), ret the result.    *)
(***************************************************************************)
Fragments ==
  { "Customers are ADVISED TO BOIL water. ",
    "This notice has been Rescinded. ",
    "Water is unsafe to drink. ",
    "Boil water notice as of 05-02-26. ",
    "It is no longer in effect. ",
    "Until further ",
    "notice is over. " }

RECURSIVE Concat(_)
Concat(frags) == IF frags = <<>> THEN "" ELSE Head(frags) \o Concat(Tail(frags))

Texts == { Concat(q) : q \in SeqsUpTo(Fragments, MaxFrags) }

DedupNotice(entity_name, source, notice_text) ==
  MkNotice(entity_name, classify_entity(entity_name), "Active", notice_text, "", source,
           "https://example.org/status/", "")

DedupPool ==
  { DedupNotice("City of Houston", "MunicipalOps", "Advised to boil water."),
    DedupNotice(" city of houston ", "MunicipalOps", "Advised to boil water."),
    DedupNotice("City of Houston", "Bing News", "Advised to boil water."),
    DedupNotice("City of Houston", "MunicipalOps", "Must boil water."),
    DedupNotice("Lakeway MUD", "MunicipalOps", "Advised to boil water.") }

\* entity names put together from words that the rules look for, in either
\* letter case, and words that no rule looks for
NameParts ==
  { "Lakeway ", "MUD ", "Municipal Utility ", "m.u.d. ", "WSC ", "Special Utility ", "wcid ",
    "Fresh Water ", "PUD ", "City of ", "Village Of ", "County ", "Rural Water ",
    "Water District ", "water authority ", "River Authority ", "Water " }

Names == { Concat(q) : q \in SeqsUpTo(NameParts, MaxNameParts) }

\* names of districts: a place, the word for the kind of district and, for
\* most, the district's number
DistrictPlaces == {"Fort Bend County", "Lakeway"}

DistrictSuffixes == {"MUD", "WSC", "SUD", "WCID", "FWSD", "PUD", "PUA"}

DistrictNumbers == {"35", "7"}

NumberedName(place, suffix, number) == place \o " " \o suffix \o " " \o number

DistrictNames ==
  { NumberedName(p, x, n) : p \in DistrictPlaces, x \in DistrictSuffixes, n \in DistrictNumbers }
    \cup { p \o " " \o x : p \in DistrictPlaces, x \in DistrictSuffixes }
    \cup { p \o " " \o n : p \in DistrictPlaces, n \in DistrictNumbers }

\* texts with dates of the four shapes, with near misses and with none
DateFragments ==
  { "on 05/02/2026 ", "5-2-26. ", "May 3, 2026 ", "Dec. 12,  2025 ",
    "JANUARY 15 2026", "Sept. 4 2026 ", "March 2026 ", "12/" }

DateTexts == { Concat(q) : q \in SeqsUpTo(DateFragments, MaxDateFrags) }

Calls ==
  { [fn |-> "is_active_bwn_text", in |-> t] : t \in Texts \cup BWN_ACTIVE_PHRASES }
    \cup { [fn |-> "dedupe", in |-> l] : l \in SeqsUpTo(DedupPool, MaxDedup) }
    \cup { [fn |-> "classify_entity", in |-> n] : n \in Names }
    \cup { [fn |-> "_extract_place_name", in |-> n] : n \in DistrictNames }
    \cup { [fn |-> "extract_date_from_text", in |-> t] : t \in DateTexts }

InitFun ==
  /\ pc = "call"
  /\ arg \in Calls
  /\ ret = ""
  /\ all_notices = <<>>
  /\ idx = 1
  /\ cache = <<>>
  /\ disk = MissingFile
  /\ reqs = <<>>
  /\ raised = "none"
  /\ run = 0
  /\ out = NoOutput
  /\ io = <<>>

CallIsActive ==
  /\ pc = "call"
  /\ arg.fn = "is_active_bwn_text"
  /\ ret' = is_active_bwn_text(arg.in)
  /\ pc' = "ret"
  /\ UNCHANGED <<arg, all_notices, idx, cache, disk, reqs, raised, run, out, io>>

CallDedupe ==
  /\ pc = "call"
  /\ arg.fn = "dedupe"
  /\ ret' = Dedupe(arg.in)
  /\ pc' = "ret"
  /\ UNCHANGED <<arg, all_notices, idx, cache, disk, reqs, raised, run, out, io>>

CallClassifyEntity ==
  /\ pc = "call"
  /\ arg.fn = "classify_entity"
  /\ ret' = classify_entity(arg.in)
  /\ pc' = "ret"
  /\ UNCHANGED <<arg, all_notices, idx, cache, disk, reqs, raised, run, out, io>>

CallExtractPlaceName ==
  /\ pc = "call"
  /\ arg.fn = "_extract_place_name"
  /\ ret' = _extract_place_name(arg.in)
  /\ pc' = "ret"
  /\ UNCHANGED <<arg, all_notices, idx, cache, disk, reqs, raised, run, out, io>>

CallExtractDate ==
  /\ pc = "call"
  /\ arg.fn = "extract_date_from_text"
  /\ ret' = extract_date_from_text(arg.in)
  /\ pc' = "ret"
  /\ UNCHANGED <<arg, all_notices, idx, cache, disk, reqs, raised, run, out, io>>

NextFun ==
  \/ CallIsActive
  \/ CallDedupe
  \/ CallClassifyEntity
  \/ CallExtractPlaceName
  \/ CallExtractDate

SpecFun == InitFun /\ [][NextFun]_vars

(***************************************************************************)
(* Vocabulary of the text properties: a case-insensitive occurrence, found *)
(* letter by letter.                                                       *)
(***************************************************************************)
SameLetter(a, b) ==
  \/ a = b
  \/ \E i \in 1..26 : {a, b} = {CharAt(UpperAlphabet, i), CharAt(LowerAlphabet, i)}

OccursAt(T, i, p) ==
  /\ i + Len(p) - 1 <= Len(T)
  /\ \A k \in 1..Len(p) : SameLetter(CharAt(T, i + k - 1), CharAt(p, k))

Occurs(T, p) == \E i \in 1..Len(T) : OccursAt(T, i, p)

Returned(fn) == pc = "ret" /\ arg.fn = fn

\* C1: is_active_bwn_text(T) is true exactly when some active phrase occurs
\* in T, letter case ignored, and no lifted keyword does.
C1_ActiveIffPhraseAndNoLiftedKeyword ==
  Returned("is_active_bwn_text") =>
    (ret <=> /\ \E p \in BWN_ACTIVE_PHRASES : Occurs(arg.in, p)
             /\ ~\E kw \in BWN_LIFTED_KEYWORDS : Occurs(arg.in, kw))

\* a text whose lifted keyword comes before its active phrase, in capitals,
\* has been classified not active
C1_Witness ==
  /\ Returned("is_active_bwn_text")
  /\ ret = FALSE
  /\ \E i, j \in 1..Len(arg.in) :
       /\ i < j
       /\ \E kw \in BWN_LIFTED_KEYWORDS : OccursAt(arg.in, i, kw)
       /\ OccursAt(arg.in, j, "ADVISED TO BOIL")

\* C2: no notice in the output notice collection of a run, the snapshot or
\* the latest file, has a text in which a lifted keyword occurs, whichever
\* adapter produced it.
C2_LiftedTextNeverInOutput ==
  \A file \in {out.json, out.latest} :
    \A k \in 1..Len(NoticesIn(file)) :
      ~\E kw \in BWN_LIFTED_KEYWORDS : Occurs(NoticesIn(file)[k].notice_text, kw)

(***************************************************************************)
(* Vocabulary of the deduplicator's properties.                            *)
(***************************************************************************)
SameIdentity(a, b) ==
  /\ Strip(Lower(a.entity_name)) = Strip(Lower(b.entity_name))
  /\ a.source = b.source

\* the positions of the input that hold the first notice of their identity
FirstOfIdentity(inp) ==
  { i \in 1..Len(inp) : \A j \in 1..(i - 1) : ~SameIdentity(inp[j], inp[i]) }

\* the k-th smallest member of a set of positions
KthOf(S, k) == CHOOSE i \in S : Cardinality({ j \in S : j <= i }) = k

\* C3: the output of the deduplication is the input restricted to the first
\* notice of every identity key (lowercased trimmed name, source), in input
\* order, and no two output notices share a key.
C3_DedupKeepsFirstPerKey ==
  Returned("dedupe") =>
    /\ Len(ret) = Cardinality(FirstOfIdentity(arg.in))
    /\ \A k \in 1..Len(ret) : ret[k] = arg.in[KthOf(FirstOfIdentity(arg.in), k)]
    /\ \A a, b \in 1..Len(ret) : a # b => ~SameIdentity(ret[a], ret[b])

\* a later notice whose name differs only in case and spaces was dropped,
\* and so was one with the same name and another text
C3_Witness ==
  /\ Returned("dedupe")
  /\ Len(arg.in) = 3
  /\ Len(ret) = 1
  /\ arg.in[1] # arg.in[2]
  /\ arg.in[1].entity_name # arg.in[3].entity_name
  /\ ret[1] = arg.in[1]

\* C4: a notice that no earlier notice of the same source shares its
\* normalized name with is in the output, whatever the other sources hold.
C4_OtherSourceNeverDiscards ==
  Returned("dedupe") =>
    \A i \in 1..Len(arg.in) :
      (\A j \in 1..(i - 1) :
         arg.in[j].source = arg.in[i].source
           => Strip(Lower(arg.in[j].entity_name)) # Strip(Lower(arg.in[i].entity_name)))
        => \E k \in 1..Len(ret) : ret[k] = arg.in[i]

\* two notices of one normalized name and two sources are both in the output
C4_Witness ==
  /\ Returned("dedupe")
  /\ \E a, b \in 1..Len(ret) :
       /\ Strip(Lower(ret[a].entity_name)) = Strip(Lower(ret[b].entity_name))
       /\ ret[a].source # ret[b].source

\* the rules of the classification in their order: the keywords and the
\* category
CLASSIFY_RULES ==
  << [keywords |-> {"MUD", "MUNICIPAL UTILITY", "M.U.D."},
      category |-> "Municipal Utility District (MUD)"],
     [keywords |-> {"WSC", "WATER SUPPLY CORP"}, category |-> "Water Supply Corporation (WSC)"],
     [keywords |-> {"SUD", "SPECIAL UTILITY"}, category |-> "Special Utility District (SUD)"],
     [keywords |-> {"WCID", "WATER CONTROL"},
      category |-> "Water Control & Improvement District (WCID)"],
     [keywords |-> {"FWSD", "FRESH WATER"}, category |-> "Fresh Water Supply District (FWSD)"],
     [keywords |-> {"PUD", "PUBLIC UTILITY"}, category |-> "Public Utility District (PUD)"],
     [keywords |-> {"CITY OF", "TOWN OF", "VILLAGE OF"}, category |-> "Municipality"],
     [keywords |-> {"COUNTY"}, category |-> "County"],
     [keywords |-> {"RURAL WATER"}, category |-> "Rural Water System"],
     [keywords |-> {"WATER DISTRICT"}, category |-> "Water District"],
     [keywords |-> {"WATER AUTH"}, category |-> "Water Authority"],
     [keywords |-> {"RIVER AUTH"}, category |-> "River Authority"] >>

\* the rule has a keyword that occurs in the name, letter case ignored
RuleMatches(r, name) == \E kw \in CLASSIFY_RULES[r].keywords : Occurs(name, kw)

\* C18: classify_entity returns the category of the first rule, in the
\* order MUD, WSC, SUD, WCID, FWSD, PUD, Municipality, County, Rural Water
\* System, Water District, Water Authority, River Authority, one of whose
\* keywords occurs in the uppercased name, and 'Water System' exactly when
\* no rule has one; a name with an MUD keyword and 'WATER DISTRICT' is MUD.
C18_FirstMatchingRuleWins ==
  Returned("classify_entity") =>
    /\ \A r \in 1..Len(CLASSIFY_RULES) :
         (RuleMatches(r, arg.in) /\ \A q \in 1..(r - 1) : ~RuleMatches(q, arg.in))
           => ret = CLASSIFY_RULES[r].category
    /\ ret = "Water System" <=> \A r \in 1..Len(CLASSIFY_RULES) : ~RuleMatches(r, arg.in)
    /\ (RuleMatches(1, arg.in) /\ Occurs(arg.in, "WATER DISTRICT"))
         => ret = "Municipal Utility District (MUD)"

\* a name that holds 'Water District' before 'MUD' has been classified MUD
C18_Witness ==
  /\ Returned("classify_entity")
  /\ arg.in = "Water District MUD "
  /\ ret = "Municipal Utility District (MUD)"

\* C19: a notice of the collection that is tagged 'Possibly Active' has a
\* text in which 'boil water notice' and 'as of' occur, no lifted keyword
\* occurs and no active phrase occurs.
C19_PossiblyActiveOnlyOnWeakSignal ==
  \A k \in 1..Len(all_notices) :
    all_notices[k].status = "Possibly Active"
      => /\ Occurs(all_notices[k].notice_text, "boil water notice")
         /\ Occurs(all_notices[k].notice_text, "as of")
         /\ ~\E kw \in BWN_LIFTED_KEYWORDS : Occurs(all_notices[k].notice_text, kw)
         /\ ~\E p \in BWN_ACTIVE_PHRASES : Occurs(all_notices[k].notice_text, p)

\* C20: for a name '<place> <suffix> <number>' with the suffix one of MUD,
\* WSC, SUD, WCID, FWSD, PUD, PUA, _extract_place_name returns '<place>',
\* without the suffix word and without the number.
C20_SuffixAndNumberStripped ==
  Returned("_extract_place_name") =>
    \A p \in DistrictPlaces, x \in DistrictSuffixes, n \in DistrictNumbers :
      arg.in = NumberedName(p, x, n) => ret = p

(***************************************************************************)
(* Vocabulary of the date properties: what it is for the characters i..j   *)
(* of a text to be a date of one of the four shapes.                       *)
(***************************************************************************)
AllDigits(s, a, b) == \A k \in a..b : IsDigit(CharAt(s, k))

AllSpaces(s, a, b) == \A k \in a..b : CharAt(s, k) = " "

\* one or two digits, the separator, one or two digits, the separator, two
\* to four digits
IsNumericDate(s, i, j, sep) ==
  \E p \in (i + 1)..(i + 2) : \E q \in (p + 2)..(p + 3) :
    /\ q < j
    /\ j - q \in 2..4
    /\ CharAt(s, p) = sep
    /\ CharAt(s, q) = sep
    /\ AllDigits(s, i, p - 1)
    /\ AllDigits(s, p + 1, q - 1)
    /\ AllDigits(s, q + 1, j)

\* a name in any letter case, a dot if dots is 1, spaces, one or two digits,
\* a comma or none, spaces, four digits
IsNamedDate(s, i, j, names, dots) ==
  \E n \in 1..Len(names) :
    /\ OccursAt(s, i, names[n])
    /\ \E dot \in 0..dots :
         /\ dot = 1 => CharAt(s, i + Len(names[n])) = "."
         /\ \E a \in (i + Len(names[n]) + dot + 1)..(j - 5) :
              /\ AllSpaces(s, i + Len(names[n]) + dot, a - 1)
              /\ \E b \in a..(a + 1) :
                   /\ AllDigits(s, a, b)
                   /\ \E comma \in 0..1 :
                        /\ comma = 1 => CharAt(s, b + 1) = ","
                        /\ j - 3 > b + comma + 1
                        /\ AllSpaces(s, b + comma + 1, j - 4)
                        /\ AllDigits(s, j - 3, j)

\* the characters i..j of s are a date of the k-th shape: slash form, dash
\* form, full month name, abbreviated month name
IsDate(k, s, i, j) ==
  CASE k = 1 -> IsNumericDate(s, i, j, "/")
    [] k = 2 -> IsNumericDate(s, i, j, "-")
    [] k = 3 -> IsNamedDate(s, i, j, MONTHS, 0)
    [] k = 4 -> IsNamedDate(s, i, j, MONTH_ABBREVS, 1)

\* a date ends with a digit
EndsOfDates(s) == { j \in 1..Len(s) : IsDigit(CharAt(s, j)) }

\* where in s a date of the k-th shape starts: at a digit for the numeric
\* shapes, at a letter for the others
DateStarts(k, s) ==
  { i \in 1..Len(s) :
      /\ IF k <= 2 THEN IsDigit(CharAt(s, i)) ELSE IsLetter(CharAt(s, i))
      /\ \E j \in EndsOfDates(s) : i < j /\ IsDate(k, s, i, j) }

\* C21: extract_date_from_text returns a date of the first shape, in the
\* order slash form, dash form, full month name, abbreviated month name,
\* that the text holds anywhere, the one that starts leftmost; and it
\* returns the empty string exactly when the text holds a date of no shape.
C21_FirstPatternLeftmostMatch ==
  Returned("extract_date_from_text") =>
    /\ ret = "" <=> \A k \in 1..4 : DateStarts(k, arg.in) = {}
    /\ \A k \in 1..4 :
         (DateStarts(k, arg.in) # {} /\ \A q \in 1..(k - 1) : DateStarts(q, arg.in) = {})
           => \E i \in DateStarts(k, arg.in) :
                /\ \A b \in DateStarts(k, arg.in) : i <= b
                /\ \E j \in EndsOfDates(arg.in) :
                     i < j /\ IsDate(k, arg.in, i, j) /\ ret = SubSeq(arg.in, i, j)

\* the slash-form date has been returned for a text that holds a date with
\* a month name before it
C21_Witness ==
  /\ Returned("extract_date_from_text")
  /\ arg.in = "May 3, 2026 on 05/02/2026 "
  /\ ret = "05/02/2026"


(***************************************************************************)
(* geocode_notices as a frame: coordinates and nothing else.               *)
(***************************************************************************)
\* a notice with its coordinates taken off
WithoutCoords(notice) == [k \in DOMAIN notice \ {"lat", "lon"} |-> notice[k]]

\* the geocoder is running: between its entry and its return or its raise
Geocoding == pc \in {"geo_load", "geo_loop"}

\* a step of the geocoder keeps the list's length and order and every field
\* but lat and lon of every notice; it writes coordinates on the notice at
\* idx alone, which had none, and then moves past it
C22_GeocodeStep ==
  Geocoding =>
    /\ Len(all_notices') = Len(all_notices)
    /\ \A i \in 1..Len(all_notices) :
         /\ WithoutCoords(all_notices'[i]) = WithoutCoords(all_notices[i])
         /\ all_notices'[i] # all_notices[i] =>
              /\ pc = "geo_loop" /\ i = idx /\ idx' = idx + 1
              /\ ~HasCoords(all_notices[i])
              /\ HasCoords(all_notices'[i])
    /\ idx' # idx => idx' = (IF pc = "geo_load" THEN 1 ELSE idx + 1)

\* when the geocoder returns, every notice carries a coordinate
C22_AllSetOnReturn ==
  pc = "geo_return" => \A i \in 1..Len(all_notices) : HasCoords(all_notices[i])

\* C22: the geocoding step changes nothing but coordinates: it returns the
\* same notices, in the same order and number, sets lat and lon exactly once
\* on each notice and leaves every other field unchanged
C22_OnlyCoordinatesChange == [][C22_GeocodeStep]_vars /\ []C22_AllSetOnReturn

\* the geocoder has returned two notices, one of them with the extra fields
\* of the SWWC dashboard, one resolved by the service and one by the fallback
C22_Witness ==
  /\ pc = "geo_return"
  /\ Len(all_notices) >= 2
  /\ \E i \in 1..Len(all_notices) : "county" \in DOMAIN all_notices[i]
  /\ \E i \in 1..Len(all_notices) : CoordsOf(i) = <<FALLBACK_LAT, FALLBACK_LON>>
  /\ \E i \in 1..Len(all_notices) : CoordsOf(i) # <<FALLBACK_LAT, FALLBACK_LON>>


(***************************************************************************)
(* The active phrases taken one at a time.                                 *)
(***************************************************************************)
\* C23: every phrase of BWN_ACTIVE_PHRASES can trigger an Active
\* classification: the text that is the phrase alone is classified active,
\* that is, no lifted keyword is a substring of an active phrase
C23_EveryPhraseAloneIsActive ==
  (Returned("is_active_bwn_text") /\ arg.in \in BWN_ACTIVE_PHRASES) =>
    /\ ret = TRUE
    /\ \A kw \in BWN_LIFTED_KEYWORDS : ~Contains(arg.in, kw)


(***************************************************************************)
(* Requests to the service within one run.                                 *)
(***************************************************************************)
\* C24: within one run the service is requested at most once for each
\* normalized place name, however many notices share the place and whatever
\* the first request brought back: an in-bounds coordinate, a failure or a
\* coordinate out of bounds
C24_OneRequestPerPlace ==
  \A k, l \in 1..Len(reqs) :
    NormalizedPlace(reqs[k].q) = NormalizedPlace(reqs[l].q) => k = l

====
